---------------------------- MODULE Spec2Model ----------------------------
(***************************************************************************)
(* Model of the Watcher core engine (lib/core-engine.ts): one engine per   *)
(* browser tab, the shared localStorage entry "watcher_state", the         *)
(* BroadcastChannel "watcher_sync" and the storage events between tabs.    *)
(*                                                                         *)
(* Encoding of JavaScript values:                                          *)
(*   - strings that the code inspects (reference IDs, user names, IDs)     *)
(*     are sequences of one-character strings;                             *)
(*   - a nullable value is <<>> (null / undefined) or <<v>>;               *)
(*   - an ISO timestamp is the reading of the wall clock `now`.            *)
(***************************************************************************)
EXTENDS Integers, Sequences, FiniteSets, TLC

(***************************************************************************)
(* Bounds of the model.                                                    *)
(***************************************************************************)
MaxOps == 2
MaxPending == 1
MaxLoads == 2

Tabs == {"A", "B"}

Null == <<>>
Some(v) == <<v>>

(***************************************************************************)
(* Characters and strings.                                                 *)
(***************************************************************************)
Digits == {"0", "1", "2", "3", "4", "5", "6", "7", "8", "9"}
UpperCase == {"A", "B", "C", "D", "E", "F", "G", "H", "I", "J", "K", "L", "M",
              "N", "O", "P", "Q", "R", "S", "T", "U", "V", "W", "X", "Y", "Z"}
AlnumUpper == UpperCase \cup Digits

\* String.prototype.substring(from, to) with 0-based, end-exclusive indices
Substring(s, from, to) == SubSeq(s, from + 1, to)

\* String.prototype.startsWith
StartsWith(s, p) == Len(s) >= Len(p) /\ SubSeq(s, 1, Len(p)) = p

\* s.split("-")[0]: the text before the first hyphen (all of s without one)
SplitFirst(s) ==
    LET hy == {i \in 1..Len(s) : s[i] = "-"}
    IN  IF hy = {} THEN s
        ELSE SubSeq(s, 1, (CHOOSE i \in hy : \A j \in hy : i <= j) - 1)

REF == <<"R", "E", "F">>
ACT == <<"A", "C", "T">>
PAY == <<"P", "A", "Y">>
ESC == <<"E", "S", "C">>
CTR == <<"C", "T", "R">>

\* variant of the REF format with \d+ in place of \d{4}
MatchesRefFormat_anyDigits(s) ==
    /\ Len(s) >= 7
    /\ SubSeq(s, 1, 4) = <<"R", "E", "F", "-">>
    /\ \E k \in 6..(Len(s) - 1) :
          /\ s[k] = "-"
          /\ \A i \in 5..(k - 1) : s[i] \in Digits
          /\ \A i \in (k + 1)..Len(s) : s[i] \in AlnumUpper

\* /^REF-\d{4}-[A-Z0-9]+$/.test(s)
MatchesRefFormat(s) ==
    /\ Len(s) >= 10
    /\ SubSeq(s, 1, 4) = REF \o <<"-">>
    /\ \A i \in 5..8 : s[i] \in Digits
    /\ s[9] = "-"
    /\ \A i \in 10..Len(s) : s[i] \in AlnumUpper

\* /^PPP-[A-Z0-9]+-[A-Z0-9]+$/.test(s) for a three-letter prefix PPP
MatchesPrefixFormat(p, s) ==
    /\ Len(s) >= 7
    /\ SubSeq(s, 1, 4) = p \o <<"-">>
    /\ \E k \in 6..(Len(s) - 1) :
          /\ s[k] = "-"
          /\ \A i \in 5..(k - 1) : s[i] \in AlnumUpper
          /\ \A i \in (k + 1)..Len(s) : s[i] \in AlnumUpper

\* DEFAULT_ACTION_CONFIG.allowedReferenceFormats, as the predicates above
AllowedPrefixFormats == {ACT, PAY, ESC, CTR}

\* validateReferenceId: some allowed format matches
validateReferenceId(referenceId) ==
    \/ MatchesRefFormat(referenceId)
    \/ \E p \in AllowedPrefixFormats : MatchesPrefixFormat(p, referenceId)

\* DEFAULT_ACTION_CONFIG.autoRefreshInterval is set (30000), so it is truthy
autoRefreshConfigured == TRUE

InvalidFormatMessage ==
    "Invalid Reference ID format. Expected formats: REF-XXXX-XXX, ACT-XXX-XXX, PAY-XXX-XXX, ESC-XXX-XXX, CTR-XXX-XXX"

\* variant of maskUsername that always shows three leading characters
maskUsername_threeVisible(username) ==
    IF Len(username) <= 4 THEN <<"*", "*", "*", "*">>
    ELSE LET prefix == Substring(username, 0, 3)
             suffix == Substring(username, Len(username) - 2, Len(username))
         IN  prefix \o <<"*", "*", "*">> \o suffix

\* maskUsername
maskUsername(username) ==
    IF Len(username) <= 4 THEN <<"*", "*", "*", "*">>
    ELSE LET third == Len(username) \div 3
             visibleChars == IF third < 3 THEN third ELSE 3
             prefix == Substring(username, 0, visibleChars)
             suffix == Substring(username, Len(username) - 2, Len(username))
         IN  prefix \o <<"*", "*", "*">> \o suffix

\* the decimal text of a clock reading (Date.now() / toISOString())
ClockDigits == <<"0", "1", "2", "3", "4", "5", "6", "7", "8", "9">>
TimeText(t) == ClockDigits[t + 1]

\* `${tag}-${timestamp}-${random}`
GeneratedId(tag, t, random) == <<tag, "-", TimeText(t), "-", random>>

\* generateEvidence
generateEvidence(referenceId, t, random) ==
    [log |-> GeneratedId("LOG", t, random),
     snapshot |-> GeneratedId("SNAP", t, random),
     freezeId |-> GeneratedId("FRZ", t, random),
     releaseId |-> GeneratedId("REL", t, random),
     hooks |-> [governance |-> "HOOK-GOV-ACTIVE",
                risk |-> "HOOK-RISK-ACTIVE",
                compliance |-> "HOOK-COMP-ACTIVE"],
     verificationDomain |-> "watcher.pi",
     verificationTimestamp |-> t]

\* variant of the lookup table without the entry for CTR
ActionTypeOf_noCTR(referenceId) ==
    LET prefix == SplitFirst(referenceId)
    IN  IF prefix = REF THEN "VERIFICATION_CHECK"
        ELSE IF prefix = ACT THEN "FUND_TRANSFER"
        ELSE IF prefix = PAY THEN "PAYMENT_SETTLEMENT"
        ELSE IF prefix = ESC THEN "ESCROW_HOLD"
        ELSE "VERIFICATION_CHECK"

\* the lookup table actionTypes of fetchActionData, with its default
ActionTypeOf(referenceId) ==
    LET prefix == SplitFirst(referenceId)
    IN  IF prefix = REF THEN "VERIFICATION_CHECK"
        ELSE IF prefix = ACT THEN "FUND_TRANSFER"
        ELSE IF prefix = PAY THEN "PAYMENT_SETTLEMENT"
        ELSE IF prefix = ESC THEN "ESCROW_HOLD"
        ELSE IF prefix = CTR THEN "CONTRACT_EXECUTION"
        ELSE "VERIFICATION_CHECK"

\* the record fetchActionData resolves to, at clock reading t with the
\* Math.random() suffix `random`; piUsername is <<>> when not given
fetchActionData(referenceId, piUsername, t, random) ==
    [referenceId |-> referenceId,
     actionId |-> IF StartsWith(referenceId, REF)
                  THEN GeneratedId("ACT", t, random)
                  ELSE referenceId,
     type |-> ActionTypeOf(referenceId),
     status |-> "Verified",
     timestamp |-> t,
     evidence |-> generateEvidence(referenceId, t, random),
     executedBy |-> IF piUsername # <<>> THEN Some(maskUsername(piUsername))
                    ELSE Null,
     originApp |-> "testnet.pi",
     verifiedBy |-> "watcher.pi"]

(***************************************************************************)
(* Engine state and the browser environment.                               *)
(***************************************************************************)
VARIABLES
    now,           \* wall clock shared by the tabs (new Date()), in ticks
    alive,         \* alive[c]: tab c is open and engineInstance is set
    state,         \* state[c]: WatcherCoreEngine.state of tab c
    chan,          \* chan[c]: this.broadcastChannel is not null
    storageEvents, \* storageEvents[c]: the "storage" listener is registered
    listeners,     \* listeners[c]: this.listeners, in insertion order
    refreshTimer,  \* refreshTimer[c]: this.refreshTimer is not null
    intervals,     \* intervals[c]: number of live setInterval timers of tab c
    loads,         \* loads[c]: loadAction calls suspended in fetchActionData,
                   \*   each with a note whether another call ran meanwhile
    storage,       \* localStorage item "watcher_state": Null or <<text>>
    storageOk,     \* localStorage.setItem succeeds (no quota / security error)
    bcSupported,   \* the browser provides BroadcastChannel
    postOk,        \* BroadcastChannel.postMessage succeeds (does not throw)
    bcq,           \* bcq[c]: messages of watcher_sync queued for tab c
    stq,           \* stq[c]: storage events queued for tab c
    fx,            \* the handler that ran last and the effects it performed
    raced,         \* some tab mutated while a delivery from another was pending
    ops            \* number of user / timer operations performed so far

vars == <<now, alive, state, chan, storageEvents, listeners, refreshTimer,
          intervals, loads, storage, storageOk, bcSupported, postOk, bcq,
          stq, fx, raced, ops>>

STORAGE_KEY == "watcher_state"
CHANNEL_NAME == "watcher_sync"

\* the state the constructor assigns
InitialState ==
    [action |-> Null, status |-> "Idle", isLoading |-> FALSE, error |-> Null,
     lastUpdated |-> Null, logs |-> <<>>]

\* JSON.stringify / JSON.parse of a state: the text is not the object.  The
\* values an engine state holds are strings, booleans, null, arrays and plain
\* objects, which the text keeps; a property whose value is undefined
\* (executedBy without a user name) is left out of the text and reads as
\* undefined after parsing, as before: both are Null here.
JSONstringify(s) == [json |-> s]
IsJSON(text) == DOMAIN text = {"json"}

\* the empty string, and `if (value)` for a text that may be null: false
\* for null and for the empty string
EmptyText == [text |-> ""]
Truthy(value) == value # Null /\ value[1] # EmptyText
JSONparse(text) == text.json

\* the fields of CoreEngineState
StateFields == {"action", "status", "isLoading", "error", "lastUpdated", "logs"}

\* the own properties of a value held in this.state: none for null
FieldsOf(s) == DOMAIN s \cap StateFields

\* { ...s, ...updates, lastUpdated: t }: the properties of s (none when s is
\* null), overridden by those of updates, then lastUpdated
MergeState(s, updates, t) ==
    LET fields == FieldsOf(s) \cup DOMAIN updates \cup {"lastUpdated"}
        get(f) == IF f = "lastUpdated" THEN Some(t)
                  ELSE IF f \in DOMAIN updates THEN updates[f] ELSE s[f]
    IN  IF fields = StateFields
        THEN [action |-> get("action"), status |-> get("status"),
              isLoading |-> get("isLoading"), error |-> get("error"),
              lastUpdated |-> Some(t), logs |-> get("logs")]
        ELSE [f \in fields |-> get(f)]

Effect(op, arg) == [op |-> op, arg |-> arg]

\* What a handler running in tab c has done so far: the engine state, the
\* stored item, the messages posted and storage events caused, and the
\* ordered trace of its effects.
HandlerStart(c) ==
    [st |-> state[c], sto |-> storage, posts |-> <<>>, sevs |-> <<>>,
     trace |-> <<>>, thrown |-> Null]

\* an exception leaves the running code: the statements up to the enclosing
\* catch, or to the end of the handler, are skipped
Throw(w, message) ==
    [w EXCEPT !.thrown = Some(message),
              !.trace = Append(@, Effect("throw", message))]

\* the catch clause receives the exception
Caught(w) == [w EXCEPT !.thrown = Null]

\* notifyListeners: every listener, in insertion order, with this.state
\* variant of notifyListeners that stops after the first listener
notifyListeners_firstOnly(c, w) ==
    IF w.thrown # Null \/ listeners[c] = <<>> THEN w
    ELSE [w EXCEPT !.trace = Append(@, Effect("listener",
                                 [listener |-> listeners[c][1], state |-> w.st]))]

\* notifyListeners: every registered listener, in insertion order
notifyListeners(c, w) ==
    IF w.thrown # Null THEN w
    ELSE [w EXCEPT !.trace = @ \o
            [i \in 1..Len(listeners[c]) |->
                Effect("listener", [listener |-> listeners[c][i], state |-> w.st])]]

\* variant of persistState that writes only while nothing is stored
persistState_onlyFirst(c, w) ==
    LET text == JSONstringify(w.st)
    IN  IF w.sto # Null THEN w
        ELSE [w EXCEPT !.sto = Some(text),
                       !.sevs = Append(@, [key |-> STORAGE_KEY,
                                           newValue |-> Some(text)]),
                       !.trace = Append(@, Effect("setItem", text))]

\* variant of persistState that lets the exception of setItem escape
persistState_rethrow(c, w) ==
    LET text == JSONstringify(w.st)
    IN  IF storageOk
        THEN [w EXCEPT !.sto = Some(text),
                       !.sevs = IF w.sto # Some(text)
                                THEN Append(@, [key |-> STORAGE_KEY,
                                                newValue |-> Some(text)])
                                ELSE @,
                       !.trace = Append(@, Effect("setItem", text))]
        ELSE Throw(w, "QuotaExceededError")

\* persistState: setItem(STORAGE_KEY, JSON.stringify(this.state)); a throw is
\* caught and logged.  The browser queues a storage event for the other
\* documents when the stored value changes.
persistState(c, w) ==
    LET text == JSONstringify(w.st)
    IN  IF storageOk
        THEN [w EXCEPT !.sto = Some(text),
                       !.sevs = IF w.sto # Some(text)
                                THEN Append(@, [key |-> STORAGE_KEY,
                                                newValue |-> Some(text)])
                                ELSE @,
                       !.trace = Append(@, Effect("setItem", text))]
        ELSE [w EXCEPT !.trace = Append(@, Effect("console.error",
                                                  "Failed to persist state:"))]

\* broadcastStateChange: nothing without a channel, else postMessage; a
\* throw is caught and logged
broadcastStateChange(c, w) ==
    IF w.thrown # Null \/ ~chan[c] THEN w
    ELSE IF ~postOk
    THEN [w EXCEPT !.trace = Append(@, Effect("console.error",
                                              "Failed to broadcast state:"))]
    ELSE LET msg == [type |-> "STATE_UPDATE", state |-> w.st, timestamp |-> now]
         IN  [w EXCEPT !.posts = Append(@, msg),
                       !.trace = Append(@, Effect("postMessage", msg))]

\* variant of updateState that notifies the listeners before it persists
updateState_notifyFirst(c, w, updates) ==
    LET s1 == MergeState(w.st, updates, now)
        w1 == [w EXCEPT !.st = s1, !.trace = Append(@, Effect("update", s1))]
    IN  broadcastStateChange(c, persistState(c, notifyListeners(c, w1)))

\* updateState: assign the merged state, persist, broadcast, notify
updateState(c, w, updates) ==
    IF w.thrown # Null THEN w
    ELSE LET s1 == MergeState(w.st, updates, now)
             w1 == [w EXCEPT !.st = s1, !.trace = Append(@, Effect("update", s1))]
         IN  notifyListeners(c, broadcastStateChange(c, persistState(c, w1)))

LogEntry(t, text, arg) == [ts |-> t, text |-> text, arg |-> arg]

\* variant of addLog that keeps the new entry local: no persist, no broadcast
addLog_localOnly(c, w, text, arg) ==
    LET s1 == MergeState(w.st, [logs |-> Append(w.st.logs, LogEntry(now, text, arg))], now)
    IN  notifyListeners(c, [w EXCEPT !.st = s1,
                                     !.trace = Append(@, Effect("update", s1))])

\* variant of addLog that puts the new entry first
addLog_newestFirst(c, w, text, arg) ==
    IF w.thrown # Null THEN w
    ELSE updateState(c, w, [logs |-> <<LogEntry(now, text, arg)>> \o w.st.logs])

\* the TypeError of reading a property of a null this.state, and of
\* spreading a this.state.logs that is undefined
NullStateMessage == "Cannot read properties of null"
LogsNotIterableMessage == "this.state.logs is not iterable"

\* addLog: `[${timestamp}] ${message}` appended to the logs; the expression
\* [...this.state.logs, logEntry] throws when there is no such array
addLog(c, w, text, arg) ==
    IF w.thrown # Null THEN w
    ELSE IF w.st = Null THEN Throw(w, NullStateMessage)
    ELSE IF "logs" \notin DOMAIN w.st THEN Throw(w, LogsNotIterableMessage)
    ELSE updateState(c, w, [logs |-> Append(w.st.logs, LogEntry(now, text, arg))])

\* variant of the catch block that does not set isLoading
loadActionCatch_stillLoading(c, w, errorMessage) ==
    addLog(c,
           updateState(c, w, [status |-> "Failed", error |-> Some(errorMessage),
                              action |-> Null]),
           "Status: Failed - ", <<errorMessage>>)

\* the catch block of loadAction
loadActionCatch(c, w, errorMessage) ==
    addLog(c,
           updateState(c, w, [status |-> "Failed", error |-> Some(errorMessage),
                              isLoading |-> FALSE, action |-> Null]),
           "Status: Failed - ", <<errorMessage>>)

\* variant of loadActionBegin whose reset does not set isLoading
loadActionBegin_notLoading(c, w, referenceId) ==
    LET w1 == updateState(c, w, [error |-> Null, action |-> Null,
                                 status |-> "Idle"])
        w2 == addLog(c, w1, "Initiating action load for: ", referenceId)
    IN  IF w2.thrown # Null THEN w2
        ELSE IF ~validateReferenceId(referenceId)
        THEN loadActionCatch(c, w2, InvalidFormatMessage)
        ELSE LET w3 == addLog(c, w2, "Reference ID validated", <<>>)
                 w4 == updateState(c, w3, [status |-> "Fetched"])
             IN  addLog(c, w4, "Status: Fetched - Retrieving action data", <<>>)

\* loadAction from its call up to the await of fetchActionData (or up to its
\* return, when validation fails)
loadActionBegin(c, w, referenceId) ==
    LET w1 == updateState(c, w, [isLoading |-> TRUE, error |-> Null,
                                 action |-> Null, status |-> "Idle"])
        w2 == addLog(c, w1, "Initiating action load for: ", referenceId)
    IN  IF w2.thrown # Null THEN w2
        ELSE IF ~validateReferenceId(referenceId)
        THEN loadActionCatch(c, w2, InvalidFormatMessage)
        ELSE LET w3 == addLog(c, w2, "Reference ID validated", <<>>)
                 w4 == updateState(c, w3, [status |-> "Fetched"])
                 w5 == addLog(c, w4, "Status: Fetched - Retrieving action data", <<>>)
             IN  IF w5.thrown # Null
                 THEN loadActionCatch(c, Caught(w5), w5.thrown[1])
                 ELSE w5

\* variant of loadActionEnd that goes to Displayed without the Verified step
loadActionEnd_skipVerified(c, w, actionData) ==
    LET w3 == updateState(c, w, [action |-> Some(actionData),
                                 status |-> "Displayed", isLoading |-> FALSE])
        w4 == addLog(c, w3, "Status: Displayed - Action ready for oversight", <<>>)
    IN  addLog(c, w4, "Evidence pack generated: ", actionData.evidence.log)

\* variant of loadActionEnd that gives up when the state is no longer the
\* one the call left at its await
loadActionEnd_ifCurrent(c, w, actionData) ==
    IF w.st.status # "Fetched" THEN w
    ELSE LET w1 == updateState(c, w, [status |-> "Verified"])
             w2 == addLog(c, w1,
                          "Status: Verified - Action data retrieved and validated", <<>>)
             w3 == updateState(c, w2, [action |-> Some(actionData),
                                       status |-> "Displayed", isLoading |-> FALSE])
             w4 == addLog(c, w3, "Status: Displayed - Action ready for oversight", <<>>)
         IN  addLog(c, w4, "Evidence pack generated: ", actionData.evidence.log)

\* loadAction from the resolution of fetchActionData to its return
loadActionEnd(c, w, actionData) ==
    LET w1 == updateState(c, w, [status |-> "Verified"])
        w2 == addLog(c, w1,
                     "Status: Verified - Action data retrieved and validated", <<>>)
        w3 == updateState(c, w2, [action |-> Some(actionData),
                                  status |-> "Displayed", isLoading |-> FALSE])
        w4 == addLog(c, w3, "Status: Displayed - Action ready for oversight", <<>>)
        w5 == addLog(c, w4, "Evidence pack generated: ", actionData.evidence.log)
    IN  IF w5.thrown # Null
        THEN loadActionCatch(c, Caught(w5), w5.thrown[1])
        ELSE w5

\* variant of the interval callback that also marks the action verified again
refreshCallback_reverify(c, w) ==
    IF w.st = Null THEN Throw(w, NullStateMessage)
    ELSE IF "action" \in DOMAIN w.st /\ w.st.action # Null
    THEN LET w1 == addLog(c, w, "Auto-refresh: Checking for updates", <<>>)
         IN  IF w1.thrown # Null THEN w1
             ELSE updateState(c, w1,
                      [action |-> Some([w1.st.action[1] EXCEPT !.timestamp = now]),
                       status |-> "Verified"])
    ELSE w

\* the setInterval callback of startAutoRefresh
refreshCallback(c, w) ==
    IF w.st = Null THEN Throw(w, NullStateMessage)
    ELSE IF "action" \in DOMAIN w.st /\ w.st.action # Null
    THEN LET w1 == addLog(c, w, "Auto-refresh: Checking for updates", <<>>)
         IN  IF w1.thrown # Null THEN w1
             ELSE updateState(c, w1,
                      [action |-> Some([w1.st.action[1] EXCEPT !.timestamp = now])])
    ELSE w

\* variant of clear() that does not empty the logs
clearState_keepLogs(c, w) ==
    addLog(c,
           updateState(c, w, [action |-> Null, status |-> "Idle",
                              isLoading |-> FALSE, error |-> Null]),
           "Engine reset", <<>>)

\* the state part of clear()
clearState(c, w) ==
    addLog(c,
           updateState(c, w, [action |-> Null, status |-> "Idle",
                              isLoading |-> FALSE, error |-> Null, logs |-> <<>>]),
           "Engine reset", <<>>)

\* the clock reading of a state's lastUpdated, -1 when it has none
StampOf(s) == IF s.lastUpdated = Null THEN -1 ELSE s.lastUpdated[1]

\* variant of onmessage that adopts the snapshot but keeps the local logs
onmessage_keepLogs(c, w, data) ==
    IF data.type = "STATE_UPDATE"
    THEN LET merged == [data.state EXCEPT !.logs = w.st.logs]
         IN  notifyListeners(c, [w EXCEPT !.st = merged,
                                          !.trace = Append(@, Effect("replace", merged))])
    ELSE w

\* variant of onmessage that adopts the state of any message that has one
onmessage_anyType(c, w, data) ==
    IF "state" \in DOMAIN data
    THEN notifyListeners(c, [w EXCEPT !.st = data.state,
                                      !.trace = Append(@, Effect("replace", data.state))])
    ELSE w

\* variant of onmessage that persists and broadcasts the state it adopted
onmessage_rebroadcast(c, w, data) ==
    IF "type" \in DOMAIN data /\ data.type = "STATE_UPDATE"
    THEN LET w1 == [w EXCEPT !.st = data.state,
                             !.trace = Append(@, Effect("replace", data.state))]
         IN  notifyListeners(c, broadcastStateChange(c, persistState(c, w1)))
    ELSE w

\* broadcastChannel.onmessage
onmessage(c, w, data) ==
    IF "type" \in DOMAIN data /\ data.type = "STATE_UPDATE"
    THEN notifyListeners(c, [w EXCEPT !.st = data.state,
                                      !.trace = Append(@, Effect("replace", data.state))])
    ELSE w

\* variant of handleStorageChange that keeps the local log lines in front of
\* the snapshot's
handleStorageChange_mergeLogs(c, w, event) ==
    IF event.key = STORAGE_KEY /\ Truthy(event.newValue)
    THEN IF IsJSON(event.newValue[1])
         THEN LET parsed == JSONparse(event.newValue[1])
                  newState == [parsed EXCEPT !.logs = w.st.logs \o @]
              IN  notifyListeners(c, [w EXCEPT !.st = newState,
                                               !.trace = Append(@, Effect("replace", newState))])
         ELSE [w EXCEPT !.trace = Append(@, Effect("console.error",
                                                   "Failed to parse storage change:"))]
    ELSE w

\* variant of handleStorageChange that ignores a snapshot older than the state
handleStorageChange_ifNewer(c, w, event) ==
    IF event.key = STORAGE_KEY /\ Truthy(event.newValue)
    THEN IF IsJSON(event.newValue[1])
         THEN LET newState == JSONparse(event.newValue[1])
              IN  IF StampOf(newState) < StampOf(w.st) THEN w
                  ELSE notifyListeners(c, [w EXCEPT !.st = newState,
                                                    !.trace = Append(@, Effect("replace", newState))])
         ELSE [w EXCEPT !.trace = Append(@, Effect("console.error",
                                                   "Failed to parse storage change:"))]
    ELSE w

\* handleStorageChange
handleStorageChange(c, w, event) ==
    IF event.key = STORAGE_KEY /\ Truthy(event.newValue)
    THEN IF IsJSON(event.newValue[1])
         THEN LET newState == JSONparse(event.newValue[1])
              IN  notifyListeners(c, [w EXCEPT !.st = newState,
                                               !.trace = Append(@, Effect("replace", newState))])
         ELSE [w EXCEPT !.trace = Append(@, Effect("console.error",
                                                   "Failed to parse storage change:"))]
    ELSE w

\* variant of loadPersistedState that never restores a load in progress
loadPersistedState_notLoading(c, w) ==
    IF Truthy(w.sto)
    THEN IF IsJSON(w.sto[1])
         THEN LET parsed == JSONparse(w.sto[1])
                  persistedState ==
                      IF parsed # Null /\ DOMAIN parsed = StateFields
                      THEN [parsed EXCEPT !.isLoading = FALSE]
                      ELSE parsed
              IN  notifyListeners(c, [w EXCEPT !.st = persistedState,
                                               !.trace = Append(@, Effect("replace", persistedState))])
         ELSE [w EXCEPT !.trace = Append(@, Effect("console.error",
                                                   "Failed to load persisted state:"))]
    ELSE w

\* loadPersistedState
loadPersistedState(c, w) ==
    IF Truthy(w.sto)
    THEN IF IsJSON(w.sto[1])
         THEN LET persistedState == JSONparse(w.sto[1])
              IN  notifyListeners(c, [w EXCEPT !.st = persistedState,
                                               !.trace = Append(@, Effect("replace", persistedState))])
         ELSE [w EXCEPT !.trace = Append(@, Effect("console.error",
                                                   "Failed to load persisted state:"))]
    ELSE w

\* the timer fields of an engine: refreshTimer and the live intervals
TimerOf(c) == [timer |-> refreshTimer[c], live |-> intervals[c]]

\* variant of stopAutoRefresh without the test of this.refreshTimer
stopAutoRefresh_unguarded(T) == [timer |-> FALSE, live |-> T.live - 1]

\* variant of stopAutoRefresh that forgets the interval without clearing it
stopAutoRefresh_noClear(T) ==
    IF T.timer THEN [timer |-> FALSE, live |-> T.live] ELSE T

\* stopAutoRefresh
stopAutoRefresh(T) ==
    IF T.timer THEN [timer |-> FALSE, live |-> T.live - 1] ELSE T

\* variant of startAutoRefresh that does not stop the timer it replaces
startAutoRefresh_noStop(T) ==
    IF ~autoRefreshConfigured THEN T
    ELSE [timer |-> TRUE, live |-> T.live + 1]

\* startAutoRefresh
startAutoRefresh(T) ==
    LET T1 == stopAutoRefresh(T)
    IN  IF ~autoRefreshConfigured THEN T1
        ELSE [timer |-> TRUE, live |-> T1.live + 1]

(***************************************************************************)
(* Inputs.                                                                 *)
(***************************************************************************)
REF_2024_A7K == <<"R", "E", "F", "-", "2", "0", "2", "4", "-", "A", "7", "K">>
ACT_9X2_P4L == <<"A", "C", "T", "-", "9", "X", "2", "-", "P", "4", "L">>
INVALID_123 == <<"I", "N", "V", "A", "L", "I", "D", "-", "1", "2", "3">>

\* reference IDs the user submits in the multi-tab specification
ReferenceIds == {REF_2024_A7K, INVALID_123}

\* userData?.username of the page: not logged in
PiUsernames == {Null}

\* Math.random().toString(36).substring(7).toUpperCase()
RandomSuffixes == {"K7Q2M"}

ListenerIds == {"L1", "L2"}

(***************************************************************************)
(* Actions: one per handler the browser runs to completion.                *)
(***************************************************************************)
Range(q) == {q[i] : i \in 1..Len(q)}

Min(S) == CHOOSE i \in S : \A j \in S : i <= j
Max(S) == CHOOSE i \in S : \A j \in S : j <= i

Mutates(w) == \E i \in 1..Len(w.trace) : w.trace[i].op = "update"

\* a broadcast message or storage event not sent by tab c is still queued
PendingFromOthers(c) ==
    \E d \in Tabs : \/ \E i \in 1..Len(bcq[d]) : bcq[d][i].from # c
                    \/ \E i \in 1..Len(stq[d]) : stq[d][i].from # c

\* number of deliveries still queued in the browser
PendingCount ==
    LET RECURSIVE Sum(_)
        Sum(S) == IF S = {} THEN 0
                  ELSE LET d == CHOOSE d \in S : TRUE
                       IN  Len(bcq[d]) + Len(stq[d]) + Sum(S \ {d})
    IN  Sum(Tabs)

\* User and timer events are slow against deliveries: one starts when at
\* most MaxPending deliveries are still queued.
Settled == PendingCount <= MaxPending

Tagged(c, q) == [i \in 1..Len(q) |-> [from |-> c, data |-> q[i]]]

\* The handler `name` ran in tab c and left w: the engine state is w.st, the
\* stored item w.sto; the browser queues the posted messages for every other
\* open channel and the storage events for every other listening document.
Commit(c, w, name, input) ==
    /\ state' = [state EXCEPT ![c] = w.st]
    /\ storage' = w.sto
    /\ bcq' = [d \in Tabs |-> IF d # c /\ alive[d] /\ chan[d]
                               THEN bcq[d] \o Tagged(c, w.posts) ELSE bcq[d]]
    /\ stq' = [d \in Tabs |-> IF d # c /\ alive[d] /\ storageEvents[d]
                               THEN stq[d] \o Tagged(c, w.sevs) ELSE stq[d]]
    /\ fx' = [handler |-> name, tab |-> c, at |-> now, input |-> input,
              before |-> state[c], trace |-> w.trace, thrown |-> w.thrown]
    /\ raced' = (raced \/ (Mutates(w) /\ PendingFromOthers(c)))

\* loadAction(referenceId, piUsername) is called in tab c, from the page's
\* load controls or by other code, and runs until it suspends in
\* fetchActionData or returns.  Each suspended call carries two notes:
\* overlapped, whether another call of the tab ran while it was suspended, and
\* pageOnly, whether it and every call it overlapped with came from the page.
LoadStartFrom(c, referenceId, piUsername, fromPage) ==
    /\ alive[c]
    /\ Settled
    /\ ops < MaxOps
    /\ Len(loads[c]) < MaxLoads
    /\ Commit(c, loadActionBegin(c, HandlerStart(c), referenceId), "loadAction",
              [referenceId |-> referenceId, piUsername |-> piUsername])
    /\ loads' = [loads EXCEPT ![c] =
                    LET earlier == [i \in 1..Len(@) |->
                                       [@[i] EXCEPT !.overlapped = TRUE,
                                                    !.pageOnly = @ /\ fromPage]]
                    IN  IF /\ validateReferenceId(referenceId)
                           /\ loadActionBegin(c, HandlerStart(c),
                                              referenceId).thrown = Null
                        THEN Append(earlier, [referenceId |-> referenceId,
                                              piUsername |-> piUsername,
                                              overlapped |-> @ # <<>>,
                                              pageOnly |->
                                                 /\ fromPage
                                                 /\ \A i \in 1..Len(@) :
                                                        @[i].pageOnly])
                        ELSE earlier]
    /\ ops' = ops + 1
    /\ now' = now + 1
    /\ UNCHANGED <<alive, chan, storageEvents, listeners, refreshTimer,
                   intervals, storageOk, postOk, bcSupported>>

\* loadAction(referenceId, piUsername) called on the engine by any code
LoadStart(c, referenceId, piUsername) ==
    LoadStartFrom(c, referenceId, piUsername, FALSE)

\* the 1500 ms timer of the oldest suspended loadAction fires: the call
\* resumes and runs to its return
LoadResume(c) ==
    /\ alive[c]
    /\ Settled
    /\ loads[c] # <<>>
    /\ \E random \in RandomSuffixes :
          LET call == Head(loads[c])
              actionData == fetchActionData(call.referenceId, call.piUsername,
                                            now, random)
              w == loadActionEnd(c, HandlerStart(c), actionData)
              T == IF autoRefreshConfigured /\ w.thrown = Null
                   THEN startAutoRefresh(TimerOf(c))
                   ELSE TimerOf(c)
          IN  /\ Commit(c, w, "loadAction.resume", call)
              /\ refreshTimer' = [refreshTimer EXCEPT ![c] = T.timer]
              /\ intervals' = [intervals EXCEPT ![c] = T.live]
    /\ loads' = [loads EXCEPT ![c] = Tail(@)]
    /\ now' = now + 1
    /\ UNCHANGED <<alive, chan, storageEvents, listeners, storageOk, postOk,
                   bcSupported, ops>>

\* a live auto-refresh interval of tab c fires
RefreshTick(c) ==
    /\ alive[c]
    /\ intervals[c] > 0
    /\ Settled
    /\ ops < MaxOps
    /\ Commit(c, refreshCallback(c, HandlerStart(c)), "refresh", Null)
    /\ ops' = ops + 1
    /\ now' = now + 1
    /\ UNCHANGED <<alive, chan, storageEvents, listeners, refreshTimer,
                   intervals, loads, storageOk, postOk, bcSupported>>

\* clear()
Clear(c) ==
    /\ alive[c]
    /\ Settled
    /\ ops < MaxOps
    /\ LET T == stopAutoRefresh(TimerOf(c))
       IN  /\ refreshTimer' = [refreshTimer EXCEPT ![c] = T.timer]
           /\ intervals' = [intervals EXCEPT ![c] = T.live]
    /\ Commit(c, clearState(c, HandlerStart(c)), "clear", Null)
    /\ ops' = ops + 1
    /\ now' = now + 1
    /\ UNCHANGED <<alive, chan, storageEvents, listeners, loads, storageOk, postOk,
                   bcSupported>>

\* the browser dispatches the oldest queued watcher_sync message to tab c
DeliverBroadcast(c) ==
    /\ alive[c]
    /\ chan[c]
    /\ bcq[c] # <<>>
    /\ LET data == Head(bcq[c]).data
           w == onmessage(c, HandlerStart(c), data)
       IN  /\ state' = [state EXCEPT ![c] = w.st]
           /\ fx' = [handler |-> "onmessage", tab |-> c, at |-> now, input |-> data,
                     before |-> state[c], trace |-> w.trace, thrown |-> Null]
           /\ storage' = w.sto
           /\ bcq' = [d \in Tabs |->
                         IF d = c THEN Tail(bcq[d])
                         ELSE IF alive[d] /\ chan[d]
                         THEN bcq[d] \o Tagged(c, w.posts) ELSE bcq[d]]
           /\ stq' = [d \in Tabs |->
                         IF d # c /\ alive[d] /\ storageEvents[d]
                         THEN stq[d] \o Tagged(c, w.sevs) ELSE stq[d]]
    /\ UNCHANGED <<now, alive, chan, storageEvents, listeners, refreshTimer,
                   intervals, loads, storageOk, postOk, bcSupported, raced, ops>>

\* the browser dispatches the oldest queued storage event to tab c
DeliverStorage(c) ==
    /\ alive[c]
    /\ storageEvents[c]
    /\ stq[c] # <<>>
    /\ LET event == Head(stq[c]).data
           w == handleStorageChange(c, HandlerStart(c), event)
       IN  /\ state' = [state EXCEPT ![c] = w.st]
           /\ fx' = [handler |-> "storage", tab |-> c, at |-> now, input |-> event,
                     before |-> state[c], trace |-> w.trace, thrown |-> Null]
           /\ storage' = w.sto
           /\ bcq' = [d \in Tabs |->
                         IF d # c /\ alive[d] /\ chan[d]
                         THEN bcq[d] \o Tagged(c, w.posts) ELSE bcq[d]]
           /\ stq' = [d \in Tabs |->
                         IF d = c THEN Tail(stq[d])
                         ELSE IF alive[d] /\ storageEvents[d]
                         THEN stq[d] \o Tagged(c, w.sevs) ELSE stq[d]]
    /\ UNCHANGED <<now, alive, chan, storageEvents, listeners, refreshTimer,
                   intervals, loads, storageOk, postOk, bcSupported, raced, ops>>

\* variant of the mount effect in which getCoreEngine() constructs an engine
\* on every call
UseEffectMount_newEngine(c, l) ==
    /\ LET w0 == loadPersistedState(c, [HandlerStart(c) EXCEPT
                          !.st = InitialState,
                          !.trace = <<Effect("construct", InitialState)>>])
           w1 == [w0 EXCEPT !.trace = Append(@, Effect("listener",
                                   [listener |-> l, state |-> w0.st]))]
       IN  /\ state' = [state EXCEPT ![c] = w1.st]
           /\ fx' = [handler |-> "mount", tab |-> c, at |-> now, input |-> l,
                     before |-> state[c], trace |-> w1.trace, thrown |-> Null]
    /\ listeners' = [listeners EXCEPT ![c] =
                        IF l \in Range(@) THEN @ ELSE Append(@, l)]
    /\ chan' = [chan EXCEPT ![c] = IF alive[c] THEN @ ELSE bcSupported]
    /\ storageEvents' = [storageEvents EXCEPT ![c] = IF alive[c] THEN @ ELSE TRUE]
    /\ alive' = [alive EXCEPT ![c] = TRUE]
    /\ UNCHANGED <<now, ops, refreshTimer, intervals, loads, storage, storageOk, postOk,
                   bcSupported, bcq, stq, raced>>

\* The effect of useWatcherEngine on mount: getCoreEngine(), which constructs
\* the engine on its first call in the tab, then subscribe(listener).
UseEffectMount(c, l) ==
    /\ LET w0 == IF alive[c] THEN HandlerStart(c)
                 ELSE loadPersistedState(c, [HandlerStart(c) EXCEPT
                          !.st = InitialState,
                          !.trace = <<Effect("construct", InitialState)>>])
           w1 == [w0 EXCEPT !.trace = Append(@, Effect("listener",
                                   [listener |-> l, state |-> w0.st]))]
       IN  /\ state' = [state EXCEPT ![c] = w1.st]
           /\ fx' = [handler |-> "mount", tab |-> c, at |-> now, input |-> l,
                     before |-> state[c], trace |-> w1.trace, thrown |-> Null]
    /\ listeners' = [listeners EXCEPT ![c] =
                        IF l \in Range(@) THEN @ ELSE Append(@, l)]
    /\ chan' = [chan EXCEPT ![c] = IF alive[c] THEN @ ELSE bcSupported]
    /\ storageEvents' = [storageEvents EXCEPT ![c] = IF alive[c] THEN @ ELSE TRUE]
    /\ alive' = [alive EXCEPT ![c] = TRUE]
    /\ UNCHANGED <<now, ops, refreshTimer, intervals, loads, storage, storageOk, postOk,
                   bcSupported, bcq, stq, raced>>

\* the user opens the page in a tab
OpenTab(c) ==
    /\ ~alive[c]
    /\ Settled
    /\ UseEffectMount(c, "L1")

\* The user closes tab c: the document, its engine, its timers, its suspended
\* calls and its undelivered events are gone; the stored item stays.
CloseTab(c) ==
    /\ alive[c]
    /\ Settled
    /\ ops < MaxOps
    /\ alive' = [alive EXCEPT ![c] = FALSE]
    /\ state' = [state EXCEPT ![c] = InitialState]
    /\ chan' = [chan EXCEPT ![c] = FALSE]
    /\ storageEvents' = [storageEvents EXCEPT ![c] = FALSE]
    /\ listeners' = [listeners EXCEPT ![c] = <<>>]
    /\ refreshTimer' = [refreshTimer EXCEPT ![c] = FALSE]
    /\ intervals' = [intervals EXCEPT ![c] = 0]
    /\ loads' = [loads EXCEPT ![c] = <<>>]
    /\ bcq' = [bcq EXCEPT ![c] = <<>>]
    /\ stq' = [stq EXCEPT ![c] = <<>>]
    /\ fx' = [handler |-> "close", tab |-> c, at |-> now, input |-> Null,
              before |-> state[c], trace |-> <<>>, thrown |-> Null]
    /\ ops' = ops + 1
    /\ now' = now + 1
    /\ UNCHANGED <<storage, storageOk, postOk, bcSupported, raced>>

\* variant of Unsubscribe that empties the registry
Unsubscribe_dropAll(c, l) ==
    /\ alive[c]
    /\ listeners' = [listeners EXCEPT ![c] = <<>>]
    /\ fx' = [handler |-> "unsubscribe", tab |-> c, at |-> now, input |-> l,
              before |-> state[c],
              trace |-> <<Effect("delete", l \in Range(listeners[c]))>>,
              thrown |-> Null]
    /\ UNCHANGED <<now, alive, state, chan, storageEvents, refreshTimer,
                   intervals, loads, storage, storageOk, postOk, bcSupported, bcq, stq,
                   raced, ops>>

\* The function subscribe() returned is called (the cleanup of the effect of
\* useWatcherEngine): this.listeners.delete(listener), which tells whether
\* the listener was in the set
Unsubscribe(c, l) ==
    /\ alive[c]
    /\ listeners' = [listeners EXCEPT ![c] = SelectSeq(@, LAMBDA x : x # l)]
    /\ fx' = [handler |-> "unsubscribe", tab |-> c, at |-> now, input |-> l,
              before |-> state[c],
              trace |-> <<Effect("delete", l \in Range(listeners[c]))>>,
              thrown |-> Null]
    /\ UNCHANGED <<now, alive, state, chan, storageEvents, refreshTimer,
                   intervals, loads, storage, storageOk, postOk, bcSupported, bcq, stq,
                   raced, ops>>

\* destroy(): stop the timer, drop the listeners, close the channel and
\* remove the storage listener; events queued for the engine are not handled
Destroy(c) ==
    /\ alive[c]
    /\ LET T == stopAutoRefresh(TimerOf(c))
       IN  /\ refreshTimer' = [refreshTimer EXCEPT ![c] = T.timer]
           /\ intervals' = [intervals EXCEPT ![c] = T.live]
    /\ listeners' = [listeners EXCEPT ![c] = <<>>]
    /\ chan' = [chan EXCEPT ![c] = FALSE]
    /\ storageEvents' = [storageEvents EXCEPT ![c] = FALSE]
    /\ bcq' = [bcq EXCEPT ![c] = <<>>]
    /\ stq' = [stq EXCEPT ![c] = <<>>]
    /\ fx' = [handler |-> "destroy", tab |-> c, at |-> now, input |-> Null,
              before |-> state[c], trace |-> <<>>, thrown |-> Null]
    /\ UNCHANGED <<now, alive, state, loads, storage, storageOk, postOk, bcSupported,
                   raced, ops>>

\* localStorage starts or stops refusing writes (quota, private browsing)
StorageAvailability ==
    /\ storageOk' = ~storageOk
    /\ fx' = [handler |-> "environment", tab |-> fx.tab, at |-> now,
              input |-> Null, before |-> state[fx.tab], trace |-> <<>>,
              thrown |-> Null]
    /\ UNCHANGED <<now, alive, state, chan, storageEvents, listeners,
                   refreshTimer, intervals, loads, storage, bcSupported, postOk,
                   bcq, stq, raced, ops>>

\* postMessage starts or stops throwing
PostAvailability ==
    /\ postOk' = ~postOk
    /\ fx' = [handler |-> "environment", tab |-> fx.tab, at |-> now,
              input |-> Null, before |-> state[fx.tab], trace |-> <<>>,
              thrown |-> Null]
    /\ UNCHANGED <<now, alive, state, chan, storageEvents, listeners,
                   refreshTimer, intervals, loads, storage, storageOk,
                   bcSupported, bcq, stq, raced, ops>>

(***************************************************************************)
(* Spec: two tabs of one origin, opened on an empty store, each with the   *)
(* page's subscription; storage and BroadcastChannel work.                 *)
(***************************************************************************)
Init ==
    /\ now = 0
    /\ alive = [c \in Tabs |-> TRUE]
    /\ state = [c \in Tabs |-> InitialState]
    /\ chan = [c \in Tabs |-> TRUE]
    /\ storageEvents = [c \in Tabs |-> TRUE]
    /\ listeners = [c \in Tabs |-> <<"L1">>]
    /\ refreshTimer = [c \in Tabs |-> FALSE]
    /\ intervals = [c \in Tabs |-> 0]
    /\ loads = [c \in Tabs |-> <<>>]
    /\ storage = Null
    /\ storageOk = TRUE
    /\ postOk = TRUE
    /\ bcSupported = TRUE
    /\ bcq = [c \in Tabs |-> <<>>]
    /\ stq = [c \in Tabs |-> <<>>]
    /\ fx = [handler |-> "init", tab |-> "A", at |-> 0, input |-> Null,
             before |-> InitialState, trace |-> <<>>, thrown |-> Null]
    /\ raced = FALSE
    /\ ops = 0

Next ==
    \/ \E c \in Tabs, r \in ReferenceIds, u \in PiUsernames : LoadStart(c, r, u)
    \/ \E c \in Tabs : LoadResume(c)
    \/ \E c \in Tabs : RefreshTick(c)
    \/ \E c \in Tabs : Clear(c)
    \/ \E c \in Tabs : DeliverBroadcast(c)
    \/ \E c \in Tabs : DeliverStorage(c)
    \/ \E c \in Tabs : OpenTab(c)
    \/ \E c \in Tabs : CloseTab(c)

Spec == Init /\ [][Next]_vars

(***************************************************************************)
(* SpecLocal: one tab, in a browser that may lack BroadcastChannel and     *)
(* whose localStorage may refuse writes; listeners come and go and the     *)
(* engine may be destroyed.                                                *)
(***************************************************************************)
InitLocal ==
    /\ now = 0
    /\ alive = [c \in Tabs |-> c = "A"]
    /\ state = [c \in Tabs |-> InitialState]
    /\ bcSupported \in BOOLEAN
    /\ chan = [c \in Tabs |-> c = "A" /\ bcSupported]
    /\ storageEvents = [c \in Tabs |-> c = "A"]
    /\ listeners = [c \in Tabs |-> <<>>]
    /\ refreshTimer = [c \in Tabs |-> FALSE]
    /\ intervals = [c \in Tabs |-> 0]
    /\ loads = [c \in Tabs |-> <<>>]
    /\ storage = Null
    /\ storageOk \in BOOLEAN
    /\ postOk \in BOOLEAN
    /\ bcq = [c \in Tabs |-> <<>>]
    /\ stq = [c \in Tabs |-> <<>>]
    /\ fx = [handler |-> "init", tab |-> "A", at |-> 0, input |-> Null,
             before |-> InitialState, trace |-> <<>>, thrown |-> Null]
    /\ raced = FALSE
    /\ ops = 0

NextLocal ==
    \/ \E c \in Tabs, r \in ReferenceIds, u \in PiUsernames : LoadStart(c, r, u)
    \/ \E c \in Tabs : LoadResume(c)
    \/ \E c \in Tabs : RefreshTick(c)
    \/ \E c \in Tabs : Clear(c)
    \/ \E c \in Tabs, l \in ListenerIds : alive[c] /\ UseEffectMount(c, l)
    \/ \E c \in Tabs, l \in ListenerIds : Unsubscribe(c, l)
    \/ \E c \in Tabs : Destroy(c)
    \/ StorageAvailability
    \/ PostAvailability

SpecLocal == InitLocal /\ [][NextLocal]_vars

(***************************************************************************)
(* States the engine reaches, used as starting points below.               *)
(***************************************************************************)
\* after loadAction("INVALID-123") at clock reading t
FailedAt(t) ==
    [action |-> Null, status |-> "Failed", isLoading |-> FALSE,
     error |-> Some(InvalidFormatMessage), lastUpdated |-> Some(t),
     logs |-> <<LogEntry(t, "Initiating action load for: ", INVALID_123),
                LogEntry(t, "Status: Failed - ", <<InvalidFormatMessage>>)>>]

\* suspended in the fetch of loadAction(referenceId) called at t
FetchingAt(referenceId, t) ==
    [action |-> Null, status |-> "Fetched", isLoading |-> TRUE,
     error |-> Null, lastUpdated |-> Some(t),
     logs |-> <<LogEntry(t, "Initiating action load for: ", referenceId),
                LogEntry(t, "Reference ID validated", <<>>),
                LogEntry(t, "Status: Fetched - Retrieving action data", <<>>)>>]

\* after loadAction(referenceId) called at t returned at t + 1
DisplayedAt(referenceId, t) ==
    LET actionData == fetchActionData(referenceId, Null, t + 1, "K7Q2M")
    IN  [action |-> Some(actionData), status |-> "Displayed",
         isLoading |-> FALSE, error |-> Null, lastUpdated |-> Some(t + 1),
         logs |-> FetchingAt(referenceId, t).logs \o
                  <<LogEntry(t + 1, "Status: Verified - Action data retrieved and validated", <<>>),
                    LogEntry(t + 1, "Status: Displayed - Action ready for oversight", <<>>),
                    LogEntry(t + 1, "Evidence pack generated: ", actionData.evidence.log)>>]

\* after clear() at t
ClearedAt(t) ==
    [action |-> Null, status |-> "Idle", isLoading |-> FALSE, error |-> Null,
     lastUpdated |-> Some(t), logs |-> <<LogEntry(t, "Engine reset", <<>>)>>]

(***************************************************************************)
(* SpecLoad: one loadAction call in one tab, nothing else running, for a   *)
(* wide range of reference IDs.                                            *)
(***************************************************************************)
SamplePrefixes ==
    {REF, ACT, PAY, ESC, CTR, <<"R", "E", "F", "X">>, <<"r", "e", "f">>,
     <<"X", "Y", "Z">>, <<>>}
SampleFirstParts ==
    {<<"2", "0", "2", "4">>, <<"2", "0", "2">>, <<"2", "0", "2", "4", "5">>,
     <<"2", "0", "2", "X">>, <<"9", "X", "2">>, <<"9", "x", "2">>, <<>>}
SampleSecondParts ==
    {<<"A", "7", "K">>, <<"7">>, <<"a", "7", "K">>, <<"A", "-", "K">>,
     <<"A", "7", " ">>, <<>>}

WideReferenceIds ==
    {p \o <<"-">> \o a \o <<"-">> \o b :
        p \in SamplePrefixes, a \in SampleFirstParts, b \in SampleSecondParts}
    \cup {p \o <<"-">> \o a : p \in SamplePrefixes, a \in SampleFirstParts}
    \cup {INVALID_123, REF_2024_A7K, ACT_9X2_P4L}

ALICE == <<"a", "l", "i", "c", "e">>
WidePiUsernames == {Null, ALICE}

PriorStates == {InitialState, FailedAt(0), DisplayedAt(ACT_9X2_P4L, 0), ClearedAt(0)}

InitLoad ==
    /\ now = 2
    /\ alive = [c \in Tabs |-> c = "A"]
    /\ state \in [Tabs -> PriorStates]
    /\ state["B"] = InitialState
    /\ bcSupported = TRUE
    /\ chan = [c \in Tabs |-> c = "A"]
    /\ storageEvents = [c \in Tabs |-> c = "A"]
    /\ listeners = [c \in Tabs |-> IF c = "A" THEN <<"L1">> ELSE <<>>]
    /\ refreshTimer = [c \in Tabs |-> FALSE]
    /\ intervals = [c \in Tabs |-> 0]
    /\ loads = [c \in Tabs |-> <<>>]
    /\ storage = IF state["A"] = InitialState THEN Null
                 ELSE Some(JSONstringify(state["A"]))
    /\ storageOk = TRUE
    /\ postOk = TRUE
    /\ bcq = [c \in Tabs |-> <<>>]
    /\ stq = [c \in Tabs |-> <<>>]
    /\ fx = [handler |-> "init", tab |-> "A", at |-> 0, input |-> Null,
             before |-> InitialState, trace |-> <<>>, thrown |-> Null]
    /\ raced = FALSE
    /\ ops = MaxOps - 1

NextLoad ==
    \/ \E r \in WideReferenceIds, u \in WidePiUsernames : LoadStart("A", r, u)
    \/ LoadResume("A")

SpecLoad == InitLoad /\ [][NextLoad]_vars

(***************************************************************************)
(* SpecDeliver: two snapshots queued for tab A, on the broadcast channel,  *)
(* as storage events, or one on each; the browser delivers them.           *)
(***************************************************************************)
Snapshots ==
    {InitialState, FailedAt(0), FailedAt(1), FetchingAt(REF_2024_A7K, 1),
     DisplayedAt(ACT_9X2_P4L, 0), DisplayedAt(REF_2024_A7K, 1), ClearedAt(2)}

StateUpdate(s) == [type |-> "STATE_UPDATE", state |-> s, timestamp |-> 2]
StorageEvent(s) == [key |-> STORAGE_KEY, newValue |-> Some(JSONstringify(s))]

InitDeliver ==
    /\ now = 3
    /\ alive = [c \in Tabs |-> c = "A"]
    /\ state \in [Tabs -> Snapshots]
    /\ state["B"] = InitialState
    /\ bcSupported = TRUE
    /\ chan = [c \in Tabs |-> c = "A"]
    /\ storageEvents = [c \in Tabs |-> c = "A"]
    /\ listeners = [c \in Tabs |-> IF c = "A" THEN <<"L1">> ELSE <<>>]
    /\ refreshTimer = [c \in Tabs |-> FALSE]
    /\ intervals = [c \in Tabs |-> 0]
    /\ loads = [c \in Tabs |-> <<>>]
    /\ storageOk = TRUE
    /\ postOk = TRUE
    /\ \E s1 \in Snapshots, s2 \in Snapshots,
          arrangement \in {"broadcast", "storage", "both"} :
          /\ storage = Some(JSONstringify(s2))
          /\ bcq = [c \in Tabs |->
                      IF c # "A" \/ arrangement = "storage" THEN <<>>
                      ELSE IF arrangement = "broadcast"
                           THEN Tagged("B", <<StateUpdate(s1), StateUpdate(s2)>>)
                           ELSE Tagged("B", <<StateUpdate(s1)>>)]
          /\ stq = [c \in Tabs |->
                      IF c # "A" \/ arrangement = "broadcast" THEN <<>>
                      ELSE IF arrangement = "storage"
                           THEN Tagged("B", <<StorageEvent(s1), StorageEvent(s2)>>)
                           ELSE Tagged("B", <<StorageEvent(s2)>>)]
    /\ fx = [handler |-> "init", tab |-> "A", at |-> 0, input |-> Null,
             before |-> InitialState, trace |-> <<>>, thrown |-> Null]
    /\ raced = FALSE
    /\ ops = MaxOps

NextDeliver ==
    \/ DeliverBroadcast("A")
    \/ DeliverStorage("A")

SpecDeliver == InitDeliver /\ [][NextDeliver]_vars

(***************************************************************************)
(* SpecForeign: one tab of the page, and other code of the origin (another *)
(* page, an older build, the developer console) that writes watcher_state  *)
(* and posts on watcher_sync values the engine did not produce.            *)
(***************************************************************************)
\* an object with every field of CoreEngineState but logs
NoLogsState ==
    [action |-> Null, status |-> "Idle", isLoading |-> FALSE, error |-> Null,
     lastUpdated |-> Null]

\* values that are not a CoreEngineState: null, and the object without logs
MalformedStates == {Null, NoLogsState}

\* a stored text that JSON.parse rejects
UnparseableText == [text |-> "{not json"]

ForeignTexts ==
    {JSONstringify(s) : s \in MalformedStates} \cup {UnparseableText}

ForeignMessages ==
    {[type |-> "STATE_UPDATE", state |-> s] : s \in MalformedStates}
    \cup {[type |-> "PING"]}

\* other code of the origin calls localStorage.setItem("watcher_state", text):
\* the browser queues a storage event for the open tabs
ForeignSetItem(text) ==
    /\ Settled
    /\ ops < MaxOps
    /\ storage # Some(text)
    /\ storage' = Some(text)
    /\ stq' = [d \in Tabs |->
                  IF alive[d] /\ storageEvents[d]
                  THEN Append(stq[d], [from |-> "foreign",
                                       data |-> [key |-> STORAGE_KEY,
                                                 newValue |-> Some(text)]])
                  ELSE stq[d]]
    /\ fx' = [handler |-> "foreign", tab |-> fx.tab, at |-> now, input |-> text,
              before |-> state[fx.tab], trace |-> <<>>, thrown |-> Null]
    /\ ops' = ops + 1
    /\ UNCHANGED <<now, alive, state, chan, storageEvents, listeners,
                   refreshTimer, intervals, loads, storageOk, postOk,
                   bcSupported, bcq, raced>>

\* other code of the origin posts data on a BroadcastChannel "watcher_sync"
ForeignPost(data) ==
    /\ Settled
    /\ ops < MaxOps
    /\ bcq' = [d \in Tabs |->
                  IF alive[d] /\ chan[d]
                  THEN Append(bcq[d], [from |-> "foreign", data |-> data])
                  ELSE bcq[d]]
    /\ fx' = [handler |-> "foreign", tab |-> fx.tab, at |-> now, input |-> data,
              before |-> state[fx.tab], trace |-> <<>>, thrown |-> Null]
    /\ ops' = ops + 1
    /\ UNCHANGED <<now, alive, state, chan, storageEvents, listeners,
                   refreshTimer, intervals, loads, storage, storageOk, postOk,
                   bcSupported, stq, raced>>

InitForeign ==
    /\ now = 2
    /\ alive = [c \in Tabs |-> c = "A"]
    /\ state \in [Tabs -> PriorStates]
    /\ state["B"] = InitialState
    /\ bcSupported = TRUE
    /\ chan = [c \in Tabs |-> c = "A"]
    /\ storageEvents = [c \in Tabs |-> c = "A"]
    /\ listeners = [c \in Tabs |-> IF c = "A" THEN <<"L1">> ELSE <<>>]
    /\ refreshTimer = [c \in Tabs |-> c = "A" /\ state[c].action # Null]
    /\ intervals = [c \in Tabs |-> IF refreshTimer[c] THEN 1 ELSE 0]
    /\ loads = [c \in Tabs |-> <<>>]
    /\ storage = IF state["A"] = InitialState THEN Null
                 ELSE Some(JSONstringify(state["A"]))
    /\ storageOk = TRUE
    /\ postOk = TRUE
    /\ bcq = [c \in Tabs |-> <<>>]
    /\ stq = [c \in Tabs |-> <<>>]
    /\ fx = [handler |-> "init", tab |-> "A", at |-> 0, input |-> Null,
             before |-> InitialState, trace |-> <<>>, thrown |-> Null]
    /\ raced = FALSE
    /\ ops = 0

NextForeign ==
    \/ \E text \in ForeignTexts : ForeignSetItem(text)
    \/ \E data \in ForeignMessages : ForeignPost(data)
    \/ \E r \in ReferenceIds, u \in PiUsernames : LoadStart("A", r, u)
    \/ LoadResume("A")
    \/ RefreshTick("A")
    \/ Clear("A")
    \/ DeliverBroadcast("A")
    \/ DeliverStorage("A")
    \/ OpenTab("A")
    \/ CloseTab("A")

SpecForeign == InitForeign /\ [][NextForeign]_vars

(***************************************************************************)
(* SpecPage: one tab driven through the page (HomePage with ActionLoader): *)
(* loads start from the form and the example buttons, which are disabled   *)
(* while the state shown to the page has isLoading set.                    *)
(***************************************************************************)
PAY_5M8_Q1N == <<"P", "A", "Y", "-", "5", "M", "8", "-", "Q", "1", "N">>
ESC_3T6_R9W == <<"E", "S", "C", "-", "3", "T", "6", "-", "R", "9", "W">>

\* EXAMPLE_ACTIONS[..].id
EXAMPLE_ACTIONS == {REF_2024_A7K, ACT_9X2_P4L, PAY_5M8_Q1N, ESC_3T6_R9W}

\* String.prototype.trim, for the space character
Trim(s) ==
    LET inked == {i \in 1..Len(s) : s[i] # " "}
    IN  IF inked = {} THEN <<>> ELSE SubSeq(s, Min(inked), Max(inked))

\* texts the user types into the form
TypedTexts ==
    {INVALID_123, <<" ">> \o ACT_9X2_P4L \o <<" ", " ">>, <<" ", " ">>, <<>>}

\* the isLoading the page renders: that of the state its listener was last
\* called with, which is the engine's state while the listener is registered
PageIsLoading(c) == state[c].isLoading

\* handleExampleClick(exampleId): the button is disabled while isLoading
ExampleClick(c, exampleId, piUsername) ==
    /\ "L1" \in Range(listeners[c])
    /\ ~PageIsLoading(c)
    /\ LoadStartFrom(c, exampleId, piUsername, TRUE)

\* handleSubmit: the Load button is disabled while isLoading or when the
\* trimmed text is empty; the trimmed text is passed on
Submit(c, text, piUsername) ==
    /\ "L1" \in Range(listeners[c])
    /\ ~PageIsLoading(c)
    /\ Trim(text) # <<>>
    /\ LoadStartFrom(c, Trim(text), piUsername, TRUE)

InitPage ==
    /\ now = 0
    /\ alive = [c \in Tabs |-> c = "A"]
    /\ state = [c \in Tabs |-> InitialState]
    /\ bcSupported = TRUE
    /\ chan = [c \in Tabs |-> c = "A"]
    /\ storageEvents = [c \in Tabs |-> c = "A"]
    /\ listeners = [c \in Tabs |-> IF c = "A" THEN <<"L1">> ELSE <<>>]
    /\ refreshTimer = [c \in Tabs |-> FALSE]
    /\ intervals = [c \in Tabs |-> 0]
    /\ loads = [c \in Tabs |-> <<>>]
    /\ storage = Null
    /\ storageOk = TRUE
    /\ postOk = TRUE
    /\ bcq = [c \in Tabs |-> <<>>]
    /\ stq = [c \in Tabs |-> <<>>]
    /\ fx = [handler |-> "init", tab |-> "A", at |-> 0, input |-> Null,
             before |-> InitialState, trace |-> <<>>, thrown |-> Null]
    /\ raced = FALSE
    /\ ops = 0

NextPage ==
    \/ \E e \in EXAMPLE_ACTIONS, u \in WidePiUsernames : ExampleClick("A", e, u)
    \/ \E t \in TypedTexts, u \in WidePiUsernames : Submit("A", t, u)
    \/ \E r \in ReferenceIds, u \in PiUsernames : LoadStart("A", r, u)
    \/ LoadResume("A")
    \/ RefreshTick("A")
    \/ OpenTab("A")
    \/ CloseTab("A")

SpecPage == InitPage /\ [][NextPage]_vars

(***************************************************************************)
(* Properties.                                                             *)
(***************************************************************************)
\* the last handler was a delivery that the engine acts upon
IsDelivery(f) ==
    \/ f.handler = "onmessage" /\ f.input.type = "STATE_UPDATE"
    \/ /\ f.handler = "storage"
       /\ f.input.key = STORAGE_KEY
       /\ f.input.newValue # Null
       /\ IsJSON(f.input.newValue[1])

\* the snapshot carried by the delivery f
DeliveredSnapshot(f) ==
    IF f.handler = "onmessage" THEN f.input.state
    ELSE JSONparse(f.input.newValue[1])

Drained(c) == bcq[c] = <<>> /\ stq[c] = <<>>

Quiescent == \A c \in Tabs : loads[c] = <<>> /\ Drained(c)

\* every open tab holds the persisted snapshot
Converged == \A c \in Tabs : alive[c] => storage = Some(JSONstringify(state[c]))

MutatingHandlers == {"loadAction", "loadAction.resume", "refresh", "clear"}

\* the positions of the local mutations in a handler's trace
UpdatesOf(tr) == {i \in 1..Len(tr) : tr[i].op = "update"}

\* from position p on, tr shows every listener of tab c, once, in order,
\* called with s, and then the next mutation or the end of the handler
NotifiedThenNext(tr, p, c, s) ==
    LET n == Len(listeners[c])
    IN  /\ p + n - 1 <= Len(tr)
        /\ \A k \in 1..n :
              /\ tr[p + k - 1].op = "listener"
              /\ tr[p + k - 1].arg.listener = listeners[c][k]
              /\ tr[p + k - 1].arg.state = s
        /\ (p + n - 1 = Len(tr) \/ tr[p + n].op = "update")

\* C4 (as claimed): every local mutation stamps lastUpdated, then writes the
\* new state to watcher_state, then posts it as STATE_UPDATE, then calls
\* every listener once with it, before the next mutation starts.
C4_UpdateAndSyncPath ==
    fx.handler \in MutatingHandlers =>
        \A i \in UpdatesOf(fx.trace) :
            LET s == fx.trace[i].arg
            IN  /\ s.lastUpdated = Some(fx.at)
                /\ i + 2 <= Len(fx.trace)
                /\ fx.trace[i + 1].op = "setItem"
                /\ fx.trace[i + 1].arg = JSONstringify(s)
                /\ fx.trace[i + 2].op = "postMessage"
                /\ fx.trace[i + 2].arg.type = "STATE_UPDATE"
                /\ fx.trace[i + 2].arg.state = s
                /\ NotifiedThenNext(fx.trace, i + 3, fx.tab, s)

\* C4 (amended): every local mutation stamps lastUpdated, then attempts the
\* write (the new state is stored unless setItem throws, which is logged),
\* then, if the engine holds a broadcast channel, attempts to post it as
\* STATE_UPDATE (it is posted unless postMessage throws, which is logged),
\* then calls every listener once with the new state, before the next
\* mutation.
C4_UpdateAndSyncPathFailOpen ==
    fx.handler \in MutatingHandlers =>
        \A i \in UpdatesOf(fx.trace) :
            LET s == fx.trace[i].arg
                posted == IF chan[fx.tab] THEN 1 ELSE 0
            IN  /\ s.lastUpdated = Some(fx.at)
                /\ i + 1 + posted <= Len(fx.trace)
                /\ IF storageOk
                   THEN /\ fx.trace[i + 1].op = "setItem"
                        /\ fx.trace[i + 1].arg = JSONstringify(s)
                   ELSE fx.trace[i + 1].op = "console.error"
                /\ chan[fx.tab] =>
                      IF postOk
                      THEN /\ fx.trace[i + 2].op = "postMessage"
                           /\ fx.trace[i + 2].arg.type = "STATE_UPDATE"
                           /\ fx.trace[i + 2].arg.state = s
                      ELSE fx.trace[i + 2].op = "console.error"
                /\ NotifiedThenNext(fx.trace, i + 2 + posted, fx.tab, s)

\* a load completed with two listeners registered, storage and channel working
C4_Witness ==
    /\ fx.handler = "loadAction.resume"
    /\ Len(listeners[fx.tab]) = 2
    /\ storageOk
    /\ chan[fx.tab]
    /\ postOk
    /\ Cardinality(UpdatesOf(fx.trace)) = 5

\* every state a tab holds after a handler, and every state the last
\* handler assigned and showed to its listeners
ObservableStates ==
    {state[c] : c \in {d \in Tabs : alive[d]}}
    \cup {fx.trace[i].arg :
            i \in {j \in 1..Len(fx.trace) : fx.trace[j].op \in {"update", "replace"}}}

\* C5: action is non-absent only when status is Displayed, in every state a
\* tab holds or shows its listeners, also while loads overlap in one tab and
\* while snapshots of other tabs are delivered during a load.
C5_ActionOnlyWhenDisplayed ==
    \A s \in ObservableStates : s.action # Null => s.status = "Displayed"

\* C6: when no load is in flight in any tab, no tab's state and no persisted
\* snapshot has isLoading = true (the second half of the claim, read in its
\* weakest form: only once every delivery has been handled).
C6_IsLoadingStrictlyInFlight ==
    Quiescent =>
        /\ \A c \in Tabs : alive[c] => ~state[c].isLoading
        /\ (storage # Null /\ IsJSON(storage[1])) =>
              ~JSONparse(storage[1]).isLoading

(***************************************************************************)
(* The reference-ID grammar as the specification writes it: three parts    *)
(* separated by hyphens, a known prefix, REF followed by exactly four      *)
(* digits, every other part one or more of A-Z and 0-9.                    *)
(***************************************************************************)
RECURSIVE SplitAll(_)
SplitAll(s) ==
    IF \A i \in 1..Len(s) : s[i] # "-" THEN <<s>>
    ELSE <<SplitFirst(s)>> \o SplitAll(SubSeq(s, Len(SplitFirst(s)) + 2, Len(s)))

AllIn(s, chars) == \A i \in 1..Len(s) : s[i] \in chars

InGrammar(r) ==
    LET parts == SplitAll(r)
    IN  /\ Len(parts) = 3
        /\ parts[1] \in {REF, ACT, PAY, ESC, CTR}
        /\ parts[2] # <<>> /\ parts[3] # <<>>
        /\ AllIn(parts[3], AlnumUpper)
        /\ IF parts[1] = REF
           THEN Len(parts[2]) = 4 /\ AllIn(parts[2], Digits)
           ELSE AllIn(parts[2], AlnumUpper)

\* C7: a loadAction that runs alone ends Displayed with action.referenceId
\* the input and isLoading false when the input is in the grammar, and
\* Failed with no action, the validation message and isLoading false when
\* it is not; nothing else decides the outcome.
C7_ValidationDeterminism ==
    LET c == fx.tab
    IN  /\ (fx.handler = "loadAction" /\ ~InGrammar(fx.input.referenceId)) =>
              /\ state[c].status = "Failed"
              /\ state[c].action = Null
              /\ state[c].error = Some(InvalidFormatMessage)
              /\ InvalidFormatMessage # ""
              /\ ~state[c].isLoading
              /\ loads[c] = <<>>
        /\ (fx.handler = "loadAction" /\ InGrammar(fx.input.referenceId)) =>
              /\ Len(loads[c]) = 1
              /\ loads[c][1].referenceId = fx.input.referenceId
              /\ loads[c][1].piUsername = fx.input.piUsername
        /\ fx.handler = "loadAction.resume" =>
              /\ InGrammar(fx.input.referenceId)
              /\ state[c].status = "Displayed"
              /\ state[c].action # Null
              /\ state[c].action[1].referenceId = fx.input.referenceId
              /\ state[c].error = Null
              /\ ~state[c].isLoading

\* a valid load returned, started from a state left by an earlier failure
C7_Witness ==
    /\ fx.handler = "loadAction.resume"
    /\ fx.input.referenceId = REF_2024_A7K
    /\ state[fx.tab].status = "Displayed"
    /\ \E i \in 1..Len(state[fx.tab].logs) :
          state[fx.tab].logs[i].text = "Status: Failed - "

\* the states the listeners of the last handler were called with
Notified(tr) ==
    LET calls == SelectSeq(tr, LAMBDA e : e.op = "listener")
    IN  [i \in 1..Len(calls) |-> calls[i].arg.state]

\* a sequence without its immediate repetitions
RECURSIVE Dedup(_)
Dedup(q) ==
    IF Len(q) <= 1 THEN q
    ELSE IF q[1] = q[2] THEN Dedup(Tail(q))
         ELSE <<q[1]>> \o Dedup(Tail(q))

StatusesOf(q) == [i \in 1..Len(q) |-> q[i].status]

NthUpdate(tr, n) ==
    tr[CHOOSE i \in UpdatesOf(tr) :
           Cardinality({j \in UpdatesOf(tr) : j <= i}) = n].arg

\* C9: right after the reset step of loadAction (the reset and the request
\* log line), logs holds the request line of this call and nothing else.
C9_LoadStartsFromEmptyLogs ==
    fx.handler = "loadAction" =>
        NthUpdate(fx.trace, 2).logs =
            <<LogEntry(fx.at, "Initiating action load for: ",
                       fx.input.referenceId)>>

\* the state clear() was called on came from a successful load
ClearedAfterLoad ==
    /\ fx.handler = "clear"
    /\ fx.before.status = "Displayed"
    /\ fx.before.action # Null

\* C10 (as claimed): clear() after a successful load leaves action absent,
\* status Idle, isLoading false, error absent and logs empty.
C10_ClearResetsFully ==
    ClearedAfterLoad =>
        /\ state[fx.tab].action = Null
        /\ state[fx.tab].status = "Idle"
        /\ ~state[fx.tab].isLoading
        /\ state[fx.tab].error = Null
        /\ state[fx.tab].logs = <<>>

\* C10 (amended): clear() after a successful load leaves action absent,
\* status Idle, isLoading false, error absent, and logs holding the single
\* entry "Engine reset" written by this call.
C10_ClearResetsToResetLine ==
    ClearedAfterLoad =>
        /\ state[fx.tab].action = Null
        /\ state[fx.tab].status = "Idle"
        /\ ~state[fx.tab].isLoading
        /\ state[fx.tab].error = Null
        /\ state[fx.tab].logs = <<LogEntry(fx.at, "Engine reset", <<>>)>>

\* clear() ran on the state a completed load had left, logs included
C10_Witness ==
    /\ ClearedAfterLoad
    /\ Len(fx.before.logs) >= 6
    /\ ~fx.before.isLoading

\* the two parts of a loadAction call: up to the await, and after it
LoadHandlers == {"loadAction", "loadAction.resume"}

\* the call failed: an exception left it, or its catch block ran
LoadFailed(f) ==
    \/ f.thrown # Null
    \/ \E i \in UpdatesOf(f.trace) :
          "status" \in DOMAIN f.trace[i].arg /\ f.trace[i].arg.status = "Failed"

\* C11: no exception leaves loadAction, and when a call has failed the state
\* at its return has status Failed, a non-empty error, isLoading false, no
\* action, and a last log entry "Status: Failed - " with the same message.
C11_LoadFailureBecomesState ==
    fx.handler \in LoadHandlers =>
        /\ fx.thrown = Null
        /\ LoadFailed(fx) =>
              LET s == state[fx.tab]
              IN  /\ s.status = "Failed"
                  /\ s.error # Null
                  /\ s.error[1] # ""
                  /\ ~s.isLoading
                  /\ s.action = Null
                  /\ s.logs # <<>>
                  /\ s.logs[Len(s.logs)].text = "Status: Failed - "
                  /\ s.logs[Len(s.logs)].arg = <<s.error[1]>>

\* a synchronization channel of tab c is failing: setItem throws, the engine
\* holds no broadcast channel, or postMessage throws
SyncFailing(c) == ~storageOk \/ ~chan[c] \/ ~postOk

\* C12: when the storage write throws, or the channel is absent or its post
\* throws, every mutation still assigns the new state, still attempts the
\* other channel, still calls every listener once with the new state, and
\* error holds nothing but the message of a failed validation (the one the
\* state had before, at the handler's first mutation); the state after the
\* handler is the last one assigned.
C12_SyncFailsOpen ==
    (fx.handler \in MutatingHandlers /\ SyncFailing(fx.tab)) =>
        /\ fx.thrown = Null
        /\ UpdatesOf(fx.trace) # {} =>
              state[fx.tab] =
                  fx.trace[Max(UpdatesOf(fx.trace))].arg
        /\ \A i \in UpdatesOf(fx.trace) :
              LET s == fx.trace[i].arg
                  attempted == IF chan[fx.tab] THEN 1 ELSE 0
              IN  /\ i + 1 + attempted <= Len(fx.trace)
                  /\ fx.trace[i + 1].op =
                        (IF storageOk THEN "setItem" ELSE "console.error")
                  /\ storageOk => fx.trace[i + 1].arg = JSONstringify(s)
                  /\ chan[fx.tab] =>
                        fx.trace[i + 2].op =
                            (IF postOk THEN "postMessage" ELSE "console.error")
                  /\ (chan[fx.tab] /\ postOk) => fx.trace[i + 2].arg.state = s
                  /\ NotifiedThenNext(fx.trace, i + 1 + attempted + 1, fx.tab, s)
                  /\ s.error \in {Null, Some(InvalidFormatMessage)}
                  /\ (s.error # Null /\ i = Min(UpdatesOf(fx.trace))) =>
                        s.error = fx.before.error

\* a load completed while setItem and postMessage both threw, two listeners
\* registered
C12_Witness ==
    /\ fx.handler = "loadAction.resume"
    /\ ~storageOk
    /\ chan[fx.tab]
    /\ ~postOk
    /\ Len(listeners[fx.tab]) = 2
    /\ state[fx.tab].status = "Displayed"
    /\ Cardinality(UpdatesOf(fx.trace)) = 5

\* s is an object with the fields of CoreEngineState
WellFormed(s) == s # Null /\ DOMAIN s = StateFields

\* the handlers that take a value from a synchronization channel or from the
\* store
ReceivingHandlers == {"onmessage", "storage", "mount"}

\* C13: handling a payload from a synchronization channel raises nothing and
\* leaves the engine with a well-formed state whose error is not set by the
\* payload being malformed, and a loadAction called afterwards raises
\* nothing and returns with status Displayed or Failed.
C13_MalformedPayloadSwallowed ==
    /\ fx.handler \in ReceivingHandlers =>
          /\ fx.thrown = Null
          /\ WellFormed(state[fx.tab])
          /\ state[fx.tab].error \in {Null, Some(InvalidFormatMessage)}
    /\ fx.handler \in LoadHandlers =>
          /\ fx.thrown = Null
          /\ WellFormed(state[fx.tab])
          /\ (fx.handler = "loadAction.resume"
                 \/ ~validateReferenceId(fx.input.referenceId)) =>
                state[fx.tab].status \in {"Displayed", "Failed"}

\* number of loadAction calls suspended in their fetch, over all tabs
LoadsInFlight ==
    LET RECURSIVE Sum(_)
        Sum(S) == IF S = {} THEN 0
                  ELSE LET d == CHOOSE d \in S : TRUE
                       IN  Len(loads[d]) + Sum(S \ {d})
    IN  Sum(Tabs)

UpdateStatuses(tr) ==
    LET n == Cardinality(UpdatesOf(tr))
    IN  [k \in 1..n |-> NthUpdate(tr, k).status]

QueuedSnapshots == {FailedAt(0), DisplayedAt(ACT_9X2_P4L, 0)}

InitSubscribe ==
    /\ now = 3
    /\ alive = [c \in Tabs |-> c = "A"]
    /\ state = [c \in Tabs |-> InitialState]
    /\ bcSupported = TRUE
    /\ chan = [c \in Tabs |-> c = "A"]
    /\ storageEvents = [c \in Tabs |-> c = "A"]
    /\ listeners = [c \in Tabs |-> <<>>]
    /\ refreshTimer = [c \in Tabs |-> FALSE]
    /\ intervals = [c \in Tabs |-> 0]
    /\ loads = [c \in Tabs |-> <<>>]
    /\ storageOk = TRUE
    /\ postOk = TRUE
    /\ \E s1 \in QueuedSnapshots, s2 \in QueuedSnapshots :
          /\ storage = Some(JSONstringify(s2))
          /\ bcq = [c \in Tabs |-> IF c = "A" THEN Tagged("B", <<StateUpdate(s1)>>)
                                   ELSE <<>>]
          /\ stq = [c \in Tabs |-> IF c = "A" THEN Tagged("B", <<StorageEvent(s2)>>)
                                   ELSE <<>>]
    /\ fx = [handler |-> "init", tab |-> "A", at |-> 0, input |-> Null,
             before |-> InitialState, trace |-> <<>>, thrown |-> Null]
    /\ raced = FALSE
    /\ ops = 0

NextSubscribe ==
    \/ \E l \in ListenerIds : alive["A"] /\ UseEffectMount("A", l)
    \/ \E l \in ListenerIds : Unsubscribe("A", l)
    \/ DeliverBroadcast("A")
    \/ DeliverStorage("A")
    \/ \E r \in ReferenceIds, u \in PiUsernames : LoadStart("A", r, u)
    \/ LoadResume("A")
    \/ RefreshTick("A")
    \/ Clear("A")
    \/ Destroy("A")

SpecSubscribe == InitSubscribe /\ [][NextSubscribe]_vars

\* the handlers that assign this.state
AssigningHandlers == MutatingHandlers \cup {"onmessage", "storage"}

\* the positions of a handler's trace where this.state is assigned
ChangesOf(tr) == {i \in 1..Len(tr) : tr[i].op \in {"update", "replace"}}

\* the positions after assignment i and before the next one where listener l
\* is called
CallsAfter(tr, i, l) ==
    LET later == {k \in ChangesOf(tr) : k > i}
        nxt == IF later = {} THEN Len(tr) + 1 ELSE Min(later)
    IN  {j \in (i + 1)..(nxt - 1) :
            tr[j].op = "listener" /\ tr[j].arg.listener = l}

\* subscribe(l) has just run: l is registered and was called once, last,
\* with the state the engine holds
SubscribeCallsOnce ==
    fx.handler = "mount" =>
       /\ fx.input \in Range(listeners[fx.tab])
       /\ fx.trace # <<>>
       /\ fx.trace[Len(fx.trace)] =
             Effect("listener", [listener |-> fx.input, state |-> state[fx.tab]])
       /\ Cardinality({j \in 1..Len(fx.trace) :
                          /\ fx.trace[j].op = "listener"
                          /\ fx.trace[j].arg.listener = fx.input}) = 1

\* every assignment of this.state is followed, before the next one, by one
\* call of each registered listener with the assigned state
EveryChangeNotified ==
    fx.handler \in AssigningHandlers =>
       \A i \in ChangesOf(fx.trace) : \A l \in Range(listeners[fx.tab]) :
          /\ Cardinality(CallsAfter(fx.trace, i, l)) = 1
          /\ \A j \in CallsAfter(fx.trace, i, l) :
                fx.trace[j].arg.state = fx.trace[i].arg

\* a step that changes the state of an open engine is a handler whose last
\* assignment is the new state
ChangesAreAssignments ==
    \A c \in Tabs :
       (alive[c] /\ alive'[c] /\ state'[c] # state[c]) =>
          /\ fx'.tab = c
          /\ fx'.handler \in AssigningHandlers
          /\ ChangesOf(fx'.trace) # {}
          /\ fx'.trace[Max(ChangesOf(fx'.trace))].arg = state'[c]

\* a listener leaves the registry only by its unsubscribe function, by
\* destroy() or with the tab
RegistrationLasts ==
    \A c \in Tabs : \A l \in ListenerIds :
       (l \in Range(listeners[c]) /\ l \notin Range(listeners'[c])) =>
          \/ fx'.handler = "unsubscribe" /\ fx'.tab = c /\ fx'.input = l
          \/ fx'.handler \in {"destroy", "close"} /\ fx'.tab = c

\* C17: subscribe(listener) calls the listener once with the current state
\* before it returns, and from then on, for as long as the listener is
\* registered, every change of the engine's state, by a local mutation or by
\* a broadcast or storage delivery, is followed by one call of the listener
\* with the new state.
C17_SubscribeThenEveryChange ==
    /\ [](SubscribeCallsOnce /\ EveryChangeNotified)
    /\ [][ChangesAreAssignments /\ RegistrationLasts]_vars

\* a listener subscribed before a snapshot was delivered by the channel is
\* called with it
C17_Witness ==
    /\ fx.handler = "onmessage"
    /\ "L2" \in Range(listeners[fx.tab])
    /\ ChangesOf(fx.trace) # {}
    /\ state[fx.tab] # fx.before

\* the listeners called by the handler that ran last
Called == {fx.trace[j].arg.listener :
              j \in {k \in 1..Len(fx.trace) : fx.trace[k].op = "listener"}}

\* only registered listeners are called
OnlyRegisteredCalled ==
    fx.handler \in AssigningHandlers => Called \subseteq Range(listeners[fx.tab])

\* the unsubscribe function of l removes l and nothing else, and changes
\* nothing when l is not registered
UnsubscribeRemovesOne ==
    \A c \in Tabs : \A l \in ListenerIds :
       (fx'.handler = "unsubscribe" /\ fx'.tab = c /\ fx'.input = l) =>
          /\ l \notin Range(listeners'[c])
          /\ \A k \in ListenerIds \ {l} :
                k \in Range(listeners'[c]) <=> k \in Range(listeners[c])
          /\ l \notin Range(listeners[c]) => listeners' = listeners
          /\ UNCHANGED <<state, storage, bcq, stq, refreshTimer, intervals,
                         loads, chan, storageEvents, alive>>

\* a listener enters the registry only by subscribe
RegisteredBySubscribe ==
    \A c \in Tabs : \A l \in ListenerIds :
       (l \notin Range(listeners[c]) /\ l \in Range(listeners'[c])) =>
          fx'.handler = "mount" /\ fx'.tab = c /\ fx'.input = l

\* C18: once the function subscribe returned has been called, the listener
\* is not registered, and stays so until it is subscribed again: no mutation
\* or delivery calls a listener that is not registered; calling the function
\* again changes nothing; the other listeners stay registered and are called.
C18_UnsubscribeFinal ==
    /\ [](OnlyRegisteredCalled /\ EveryChangeNotified)
    /\ [][UnsubscribeRemovesOne /\ RegisteredBySubscribe]_vars

\* the unsubscribe function of L1 was called while L1 and L2 were
\* registered: L2 still is
C18_Witness ==
    /\ fx.handler = "unsubscribe"
    /\ fx.input = "L1"
    /\ fx.trace = <<Effect("delete", TRUE)>>
    /\ Range(listeners[fx.tab]) = {"L2"}

\* the handler that ran last constructed the engine of its tab
Constructed == fx.handler = "mount" /\ fx.trace # <<>> /\ fx.trace[1].op = "construct"

\* C16: an engine constructed while the store holds the text of a snapshot
\* starts with that snapshot, field for field; constructed while the store
\* holds nothing under watcher_state, or a text that does not parse, it
\* starts with the constructor's state.
C16_RestoreOnConstruction ==
    Constructed =>
       /\ (storage = Null \/ ~IsJSON(storage[1])) =>
             /\ state[fx.tab].action = Null
             /\ state[fx.tab].status = "Idle"
             /\ state[fx.tab].isLoading = FALSE
             /\ state[fx.tab].error = Null
             /\ state[fx.tab].lastUpdated = Null
             /\ state[fx.tab].logs = <<>>
       /\ (storage # Null /\ IsJSON(storage[1])
              /\ WellFormed(JSONparse(storage[1]))) =>
             /\ WellFormed(state[fx.tab])
             /\ JSONstringify(state[fx.tab]) = storage[1]

\* an engine was constructed over the snapshot of a load in progress
C16_Witness ==
    /\ Constructed
    /\ storage # Null
    /\ WellFormed(state[fx.tab])
    /\ state[fx.tab].status = "Fetched"
    /\ state[fx.tab].isLoading

\* the tick that ran last found an action: it stamped the action with the
\* time of the tick, appended one log line and left the rest as it was
TickTouchesTimestamp ==
    (fx.handler = "refresh" /\ fx.before.action # Null) =>
       LET before == fx.before
           after == state[fx.tab]
       IN  /\ after.action # Null
           /\ after.action[1].timestamp = fx.at
           /\ after.action[1].timestamp # before.action[1].timestamp
           /\ after.action[1].referenceId = before.action[1].referenceId
           /\ after.action[1].actionId = before.action[1].actionId
           /\ after.action[1].type = before.action[1].type
           /\ after.action[1].evidence = before.action[1].evidence
           /\ after.status = before.status
           /\ after.isLoading = before.isLoading
           /\ after.error = before.error
           /\ Len(after.logs) = Len(before.logs) + 1
           /\ SubSeq(after.logs, 1, Len(before.logs)) = before.logs

\* the tick that ran last found no action: it did nothing
TickWithoutAction ==
    (fx.handler = "refresh" /\ fx.before.action = Null) =>
       /\ state[fx.tab] = fx.before
       /\ fx.trace = <<>>

\* a tick that finds no action leaves the state, the store and the queues of
\* the other tabs as they are
TickWithoutActionStep ==
    (fx'.handler = "refresh" /\ fx' # fx /\ fx'.before.action = Null) =>
       UNCHANGED <<state, storage, bcq, stq>>

\* C19: one tick of the refresh timer, when an action is present, sets
\* action.timestamp, appends one log line and leaves action.referenceId,
\* action.actionId, action.type, action.evidence, status, isLoading and
\* error unchanged; when no action is present it changes nothing, writes
\* nothing, posts nothing and calls no listener.
C19_RefreshTouchesTimestampOnly ==
    /\ [](TickTouchesTimestamp /\ TickWithoutAction)
    /\ [][TickWithoutActionStep]_vars

\* a tick refreshed a displayed action
C19_Witness ==
    /\ fx.handler = "refresh"
    /\ fx.before.action # Null
    /\ fx.before.status = "Displayed"
    /\ state[fx.tab].action # Null
    /\ state[fx.tab].action[1].timestamp = fx.at

\* C20: an engine never has more than one live auto-refresh interval, and
\* the one it has is the one refreshTimer holds.
C20_AtMostOneTimer ==
    \A c \in Tabs :
       /\ intervals[c] <= 1
       /\ intervals[c] = 1 <=> refreshTimer[c]

\* two overlapping loads have both completed and one interval is live
C20_Witness ==
    /\ fx.handler = "loadAction.resume"
    /\ fx.input.overlapped
    /\ fx.before.status = "Displayed"
    /\ loads[fx.tab] = <<>>
    /\ refreshTimer[fx.tab]
    /\ intervals[fx.tab] = 1

(***************************************************************************)
(* SpecTimer: one tab in which loads, ticks, clear(), stopAutoRefresh()    *)
(* and destroy() follow each other in any order.                           *)
(***************************************************************************)
\* stopAutoRefresh() called on the engine (useWatcherEngine hands it out)
StopAutoRefresh(c) ==
    /\ alive[c]
    /\ LET T == stopAutoRefresh(TimerOf(c))
       IN  /\ refreshTimer' = [refreshTimer EXCEPT ![c] = T.timer]
           /\ intervals' = [intervals EXCEPT ![c] = T.live]
    /\ fx' = [handler |-> "stopAutoRefresh", tab |-> c, at |-> now, input |-> Null,
              before |-> state[c],
              trace |-> IF refreshTimer[c] THEN <<Effect("clearInterval", Null)>>
                        ELSE <<>>,
              thrown |-> Null]
    /\ UNCHANGED <<now, alive, state, chan, storageEvents, listeners, loads,
                   storage, storageOk, postOk, bcSupported, bcq, stq, raced, ops>>

InitTimer ==
    /\ now = 0
    /\ alive = [c \in Tabs |-> c = "A"]
    /\ state = [c \in Tabs |-> InitialState]
    /\ bcSupported = TRUE
    /\ chan = [c \in Tabs |-> c = "A"]
    /\ storageEvents = [c \in Tabs |-> c = "A"]
    /\ listeners = [c \in Tabs |-> IF c = "A" THEN <<"L1">> ELSE <<>>]
    /\ refreshTimer = [c \in Tabs |-> FALSE]
    /\ intervals = [c \in Tabs |-> 0]
    /\ loads = [c \in Tabs |-> <<>>]
    /\ storage = Null
    /\ storageOk = TRUE
    /\ postOk = TRUE
    /\ bcq = [c \in Tabs |-> <<>>]
    /\ stq = [c \in Tabs |-> <<>>]
    /\ fx = [handler |-> "init", tab |-> "A", at |-> 0, input |-> Null,
             before |-> InitialState, trace |-> <<>>, thrown |-> Null]
    /\ raced = FALSE
    /\ ops = 0

NextTimer ==
    \/ \E r \in ReferenceIds, u \in PiUsernames : LoadStart("A", r, u)
    \/ LoadResume("A")
    \/ RefreshTick("A")
    \/ Clear("A")
    \/ StopAutoRefresh("A")
    \/ Destroy("A")

SpecTimer == InitTimer /\ [][NextTimer]_vars

\* the handlers that stop the timer
StoppingHandlers == {"stopAutoRefresh", "clear", "destroy", "close"}

\* a timer becomes active only in the step in which a loadAction of the
\* engine returns with status Displayed
StartedByCompletedLoad ==
    \A c \in Tabs :
       ((~refreshTimer[c] /\ refreshTimer'[c]) \/ intervals'[c] > intervals[c]) =>
          /\ fx'.handler = "loadAction.resume"
          /\ fx'.tab = c
          /\ fx'.thrown = Null
          /\ state'[c].status = "Displayed"

\* stopAutoRefresh(), clear() and teardown leave no timer and no live interval
StoppedByStop ==
    fx.handler \in StoppingHandlers =>
       /\ ~refreshTimer[fx.tab]
       /\ intervals[fx.tab] = 0

\* a tick runs only while the timer is active
TicksNeedTimer ==
    (fx'.handler = "refresh" /\ fx' # fx) =>
       /\ refreshTimer[fx'.tab]
       /\ intervals[fx'.tab] > 0

\* C21: the timer of an engine becomes active only when a loadAction of the
\* engine completes successfully, stopAutoRefresh(), clear() and teardown
\* leave it inactive, and ticks run only while it is active; so it is active
\* only if a load completed since the last stop, and no tick mutates the
\* state between a stop and the next completed load.
C21_TimerLifecycle ==
    /\ []StoppedByStop
    /\ [][StartedByCompletedLoad /\ TicksNeedTimer]_vars

\* stopAutoRefresh() has stopped the timer a completed load had started
C21_Witness ==
    /\ fx.handler = "stopAutoRefresh"
    /\ fx.trace = <<Effect("clearInterval", Null)>>
    /\ fx.before.status = "Displayed"
    /\ ~refreshTimer[fx.tab]
    /\ intervals[fx.tab] = 0

\* destroy() has been called on the engine of tab c: only destroy() removes
\* the storage listener of an engine
Destroyed(c) == alive[c] /\ ~storageEvents[c]

\* C22: once destroy() has been called on an engine, also while a
\* loadAction was in flight, the engine has no active timer, no live
\* interval and no listener, and no broadcast message or storage event is
\* handled by it.
C22_TeardownReleasesEverything ==
    /\ \A c \in Tabs :
          Destroyed(c) =>
             /\ ~refreshTimer[c]
             /\ intervals[c] = 0
             /\ listeners[c] = <<>>
             /\ ~chan[c]
             /\ bcq[c] = <<>>
             /\ stq[c] = <<>>
    /\ fx.handler \in {"onmessage", "storage"} => ~Destroyed(fx.tab)

\* a is b or b with entries removed from its end
IsPrefix(a, b) == Len(a) <= Len(b) /\ SubSeq(b, 1, Len(a)) = a

\* the logs of the states a handler assigned, in order
UpdateLogs(tr) ==
    LET n == Cardinality(UpdatesOf(tr))
    IN  [k \in 1..n |-> NthUpdate(tr, k).logs]

\* from its reset step to its suspension, and from its resumption to its
\* return, every state a loadAction assigns extends the logs of the one before
LoadStepsAppend ==
    fx.handler \in LoadHandlers =>
       /\ \A k \in 1..(Len(UpdateLogs(fx.trace)) - 1) :
             IsPrefix(UpdateLogs(fx.trace)[k], UpdateLogs(fx.trace)[k + 1])
       /\ (fx.handler = "loadAction.resume" /\ UpdateLogs(fx.trace) # <<>>) =>
             IsPrefix(fx.before.logs, UpdateLogs(fx.trace)[1])

\* a step taken in a tab while a loadAction of the tab is suspended leaves
\* the logs extended
GrowsWhileInFlight ==
    \A c \in Tabs :
       (loads[c] # <<>> /\ alive[c] /\ alive'[c]) =>
          IsPrefix(state[c].logs, state'[c].logs)

\* the same, for the steps that are not clear() and not the delivery of a
\* snapshot
GrowsWhileInFlightUndisturbed ==
    \A c \in Tabs :
       (loads[c] # <<>> /\ alive[c] /\ alive'[c]
          /\ ~(fx' # fx /\ fx'.tab = c
                 /\ fx'.handler \in {"clear", "onmessage", "storage"})) =>
          IsPrefix(state[c].logs, state'[c].logs)

\* C23 (as claimed): between the reset step of a loadAction and the return of
\* the call, in every pair of consecutive states of the tab the earlier logs
\* is a prefix of the later logs.
C23_LogsOnlyGrow ==
    /\ []LoadStepsAppend
    /\ [][GrowsWhileInFlight]_vars

\* C23 (amended): the same for the steps of the call itself and for every
\* other step taken in the tab meanwhile except clear() and the delivery of
\* a snapshot, which replace the logs.
C23_LogsOnlyGrowUndisturbed ==
    /\ []LoadStepsAppend
    /\ [][GrowsWhileInFlightUndisturbed]_vars

\* a loadAction that overlapped with another one returned, and the log
\* lines of both are there
C23_Witness ==
    /\ fx.handler = "loadAction.resume"
    /\ fx.input.overlapped
    /\ Len(fx.before.logs) >= 5
    /\ Len(state[fx.tab].logs) = Len(fx.before.logs) + 3

\* C24: a tab never replaces its state with a delivered snapshot whose
\* lastUpdated is older than that of the state it holds, and lastUpdated
\* never decreases in a tab.
C24_TimestampOrdering ==
    (fx.handler \in AssigningHandlers /\ ChangesOf(fx.trace) # {}) =>
       StampOf(state[fx.tab]) >= StampOf(fx.before)

\* C25: a valid loadAction leaves status Fetching while it is suspended in
\* the retrieval and has not assigned Fetched by then; it assigns Fetched
\* after the retrieval, before Verified.
C25_FetchingThenFetched ==
    /\ (fx.handler = "loadAction" /\ validateReferenceId(fx.input.referenceId)
           /\ fx.thrown = Null) =>
          /\ state[fx.tab].status = "Fetching"
          /\ \A k \in 1..Len(UpdateStatuses(fx.trace)) :
                UpdateStatuses(fx.trace)[k] # "Fetched"
    /\ (fx.handler = "loadAction.resume" /\ fx.thrown = Null) =>
          \E k \in 1..Len(UpdateStatuses(fx.trace)) :
             /\ UpdateStatuses(fx.trace)[k] = "Fetched"
             /\ \A j \in 1..(k - 1) : UpdateStatuses(fx.trace)[j] # "Verified"

\* C26: a load that failed in one tab does not change the error field of
\* another tab: a tab that handles a snapshot left by a failed load keeps the
\* error it had.
C26_ErrorIsolatedPerTab ==
    (fx.handler \in {"onmessage", "storage"} /\ ChangesOf(fx.trace) # {}
       /\ state[fx.tab].status = "Failed") =>
          state[fx.tab].error = fx.before.error

(***************************************************************************)
(* SpecMask: loads of the four example reference IDs with user names of    *)
(* every length up to MaxNameLen and the names of the documented examples. *)
(***************************************************************************)
MaxNameLen == 12

Letters ==
    <<"a", "b", "c", "d", "e", "f", "g", "h", "i", "j", "k", "l", "m", "n", "o",
      "p", "q", "r", "s", "t", "u", "v", "w", "x", "y", "z">>

JOHNDOE123 == <<"j", "o", "h", "n", "d", "o", "e", "1", "2", "3">>
BOB == <<"b", "o", "b">>
AB == <<"a", "b">>

\* a user name of every length from 1 to MaxNameLen, and the examples
MaskedNames ==
    {SubSeq(Letters, 1, n) : n \in 1..MaxNameLen} \cup {JOHNDOE123, ALICE, BOB, AB}

InitMask ==
    /\ now = 0
    /\ alive = [c \in Tabs |-> c = "A"]
    /\ state = [c \in Tabs |-> InitialState]
    /\ bcSupported = TRUE
    /\ chan = [c \in Tabs |-> c = "A"]
    /\ storageEvents = [c \in Tabs |-> c = "A"]
    /\ listeners = [c \in Tabs |-> IF c = "A" THEN <<"L1">> ELSE <<>>]
    /\ refreshTimer = [c \in Tabs |-> FALSE]
    /\ intervals = [c \in Tabs |-> 0]
    /\ loads = [c \in Tabs |-> <<>>]
    /\ storage = Null
    /\ storageOk = TRUE
    /\ postOk = TRUE
    /\ bcq = [c \in Tabs |-> <<>>]
    /\ stq = [c \in Tabs |-> <<>>]
    /\ fx = [handler |-> "init", tab |-> "A", at |-> 0, input |-> Null,
             before |-> InitialState, trace |-> <<>>, thrown |-> Null]
    /\ raced = FALSE
    /\ ops = MaxOps - 1

NextMask ==
    \/ \E r \in EXAMPLE_ACTIONS, u \in MaskedNames : LoadStart("A", r, u)
    \/ LoadResume("A")

SpecMask == InitMask /\ [][NextMask]_vars

HasPrefix(s, p) ==
    /\ Len(s) > Len(p)
    /\ SubSeq(s, 1, Len(p)) = p
    /\ s[Len(p) + 1] = "-"
    /\ \A i \in 1..Len(p) : p[i] # "-"

\* C28: the action loaded for an accepted reference ID has the type the
\* table gives for the text before the first hyphen, and its actionId is the
\* reference ID, unless that text is REF: then it is an ID generated at the
\* time of the retrieval.
C28_TypeAndActionId ==
    (fx.handler = "loadAction.resume" /\ state[fx.tab].action # Null) =>
       LET id == fx.input.referenceId
           a == state[fx.tab].action[1]
       IN  /\ HasPrefix(id, REF) => a.type = "VERIFICATION_CHECK"
           /\ HasPrefix(id, ACT) => a.type = "FUND_TRANSFER"
           /\ HasPrefix(id, PAY) => a.type = "PAYMENT_SETTLEMENT"
           /\ HasPrefix(id, ESC) => a.type = "ESCROW_HOLD"
           /\ HasPrefix(id, CTR) => a.type = "CONTRACT_EXECUTION"
           /\ \E p \in {REF, ACT, PAY, ESC, CTR} : HasPrefix(id, p)
           /\ ~HasPrefix(id, REF) => a.actionId = id
           /\ HasPrefix(id, REF) =>
                 /\ a.actionId # id
                 /\ \E random \in RandomSuffixes :
                       a.actionId = <<"ACT", "-", TimeText(fx.at), "-", random>>

\* a contract reference was loaded
C28_Witness ==
    /\ fx.handler = "loadAction.resume"
    /\ HasPrefix(fx.input.referenceId, CTR)
    /\ state[fx.tab].action # Null
    /\ state[fx.tab].action[1].type = "CONTRACT_EXECUTION"
    /\ state[fx.tab].action[1].actionId = fx.input.referenceId

(***************************************************************************)
(* SpecIgnored: a message and a storage event are queued for tab A; each   *)
(* is either one the handlers act on or one they are to ignore.            *)
(***************************************************************************)
OTHER_KEY == "theme"

\* messages on watcher_sync that are not STATE_UPDATE: another type, with or
\* without a state, no type, and no data at all
IgnoredMessages ==
    {[type |-> "PING"], Null}
    \cup {[type |-> "STATE_SYNC", state |-> s, timestamp |-> 2] : s \in QueuedSnapshots}
    \cup {[state |-> s, timestamp |-> 2] : s \in QueuedSnapshots}

\* storage events for another key, and for watcher_state removed or set to
\* the empty string
IgnoredEvents ==
    {[key |-> OTHER_KEY, newValue |-> Some(JSONstringify(s))] : s \in QueuedSnapshots}
    \cup {[key |-> STORAGE_KEY, newValue |-> Null],
          [key |-> STORAGE_KEY, newValue |-> Some(EmptyText)]}

InitIgnored ==
    /\ now = 3
    /\ alive = [c \in Tabs |-> c = "A"]
    /\ state \in [Tabs -> Snapshots]
    /\ state["B"] = InitialState
    /\ bcSupported = TRUE
    /\ chan = [c \in Tabs |-> c = "A"]
    /\ storageEvents = [c \in Tabs |-> c = "A"]
    /\ listeners = [c \in Tabs |-> IF c = "A" THEN <<"L1", "L2">> ELSE <<>>]
    /\ refreshTimer = [c \in Tabs |-> FALSE]
    /\ intervals = [c \in Tabs |-> 0]
    /\ loads = [c \in Tabs |-> <<>>]
    /\ storage = Null
    /\ storageOk = TRUE
    /\ postOk = TRUE
    /\ \E m \in IgnoredMessages \cup {StateUpdate(s) : s \in QueuedSnapshots},
          e \in IgnoredEvents \cup {StorageEvent(s) : s \in QueuedSnapshots} :
          /\ bcq = [c \in Tabs |-> IF c = "A" THEN Tagged("B", <<m>>) ELSE <<>>]
          /\ stq = [c \in Tabs |-> IF c = "A" THEN Tagged("B", <<e>>) ELSE <<>>]
    /\ fx = [handler |-> "init", tab |-> "A", at |-> 0, input |-> Null,
             before |-> InitialState, trace |-> <<>>, thrown |-> Null]
    /\ raced = FALSE
    /\ ops = MaxOps

NextIgnored ==
    \/ DeliverBroadcast("A")
    \/ DeliverStorage("A")

SpecIgnored == InitIgnored /\ [][NextIgnored]_vars

\* the handler that ran last was given something it is to ignore
IgnoredInput ==
    \/ /\ fx.handler = "onmessage"
       /\ \/ "type" \notin DOMAIN fx.input
          \/ fx.input.type # "STATE_UPDATE"
    \/ /\ fx.handler = "storage"
       /\ \/ fx.input.key # STORAGE_KEY
          \/ fx.input.newValue = Null
          \/ fx.input.newValue = Some(EmptyText)

\* C29: a message whose type is not STATE_UPDATE, a storage event for
\* another key and a storage event for watcher_state without a new value or
\* with an empty one leave the state as it was and call no listener.
C29_IgnoredInputs ==
    IgnoredInput =>
       /\ state[fx.tab] = fx.before
       /\ fx.trace = <<>>
       /\ fx.thrown = Null

\* a message of another type that carries a state was handled by a tab
\* holding a different state
C29_Witness ==
    /\ fx.handler = "onmessage"
    /\ "type" \in DOMAIN fx.input
    /\ fx.input.type = "STATE_SYNC"
    /\ fx.input.state # fx.before
    /\ state[fx.tab] = fx.before

(***************************************************************************)
(* SpecSingleton: getCoreEngine() is called any number of times in a tab,  *)
(* the first call finding a stored snapshot or none, while the engine      *)
(* loads and clears.                                                       *)
(***************************************************************************)
InitSingleton ==
    /\ now = 3
    /\ alive = [c \in Tabs |-> FALSE]
    /\ state = [c \in Tabs |-> InitialState]
    /\ bcSupported = TRUE
    /\ chan = [c \in Tabs |-> FALSE]
    /\ storageEvents = [c \in Tabs |-> FALSE]
    /\ listeners = [c \in Tabs |-> <<>>]
    /\ refreshTimer = [c \in Tabs |-> FALSE]
    /\ intervals = [c \in Tabs |-> 0]
    /\ loads = [c \in Tabs |-> <<>>]
    /\ storage \in {Null} \cup {Some(JSONstringify(s)) : s \in QueuedSnapshots}
    /\ storageOk = TRUE
    /\ postOk = TRUE
    /\ bcq = [c \in Tabs |-> <<>>]
    /\ stq = [c \in Tabs |-> <<>>]
    /\ fx = [handler |-> "init", tab |-> "A", at |-> 0, input |-> Null,
             before |-> InitialState, trace |-> <<>>, thrown |-> Null]
    /\ raced = FALSE
    /\ ops = 0

NextSingleton ==
    \/ \E l \in ListenerIds : Settled /\ UseEffectMount("A", l)
    \/ \E r \in ReferenceIds, u \in PiUsernames : LoadStart("A", r, u)
    \/ LoadResume("A")
    \/ Clear("A")

SpecSingleton == InitSingleton /\ [][NextSingleton]_vars

\* the positions of a trace with effect op
EffectsOf(tr, op) == {i \in 1..Len(tr) : tr[i].op = op}

\* one call of getCoreEngine() constructs at most one engine and reads the
\* stored snapshot at most once
ConstructsOnce ==
    fx.handler = "mount" =>
       /\ Cardinality(EffectsOf(fx.trace, "construct")) <= 1
       /\ Cardinality(EffectsOf(fx.trace, "replace")) <= 1

\* a call of getCoreEngine() in a tab that has an engine returns that
\* engine: nothing is constructed, the store is not read, and the state, the
\* timer, the suspended calls, the channel and the listeners are the same
ReturnsSameEngine ==
    \A c \in Tabs :
       (fx' # fx /\ fx'.handler = "mount" /\ fx'.tab = c /\ alive[c]) =>
          /\ EffectsOf(fx'.trace, "construct") = {}
          /\ EffectsOf(fx'.trace, "replace") = {}
          /\ state'[c] = state[c]
          /\ refreshTimer'[c] = refreshTimer[c]
          /\ intervals'[c] = intervals[c]
          /\ loads'[c] = loads[c]
          /\ chan'[c] = chan[c]
          /\ storageEvents'[c] = storageEvents[c]
          /\ Range(listeners[c]) \subseteq Range(listeners'[c])

\* C30: every call of getCoreEngine() in a tab returns the engine of the
\* tab; an engine is constructed, and the stored snapshot read, only by the
\* first call.
C30_Singleton ==
    /\ []ConstructsOnce
    /\ [][ReturnsSameEngine]_vars

\* getCoreEngine() was called again in a tab whose engine displays an action
C30_Witness ==
    /\ fx.handler = "mount"
    /\ ~Constructed
    /\ state[fx.tab].status = "Displayed"
    /\ refreshTimer[fx.tab]
    /\ Len(listeners[fx.tab]) = 2

(***************************************************************************)
(* stopAutoRefresh() alone.                                                *)
(***************************************************************************)
\* the effects that reach the store, the channel or a listener
OutwardOps == {"update", "replace", "setItem", "postMessage", "listener"}

\* after stopAutoRefresh() another call finds nothing to do, and the call
\* made no outward effect and left the state as it was
StopLeavesNothingToStop ==
    fx.handler = "stopAutoRefresh" =>
       /\ ~refreshTimer[fx.tab]
       /\ stopAutoRefresh(TimerOf(fx.tab)) = TimerOf(fx.tab)
       /\ state[fx.tab] = fx.before
       /\ \A i \in 1..Len(fx.trace) : fx.trace[i].op \notin OutwardOps
       /\ fx.thrown = Null

\* a step of stopAutoRefresh() changes nothing but the timer, and nothing at
\* all when no timer is active
StopStep ==
    (fx'.handler = "stopAutoRefresh" /\ fx' # fx) =>
       /\ UNCHANGED <<state, storage, bcq, stq, listeners, loads, chan,
                      storageEvents, alive>>
       /\ ~refreshTimer[fx'.tab] =>
             /\ UNCHANGED <<refreshTimer, intervals>>
             /\ fx'.trace = <<>>
       /\ refreshTimer[fx'.tab] =>
             intervals'[fx'.tab] = intervals[fx'.tab] - 1

\* C31: stopAutoRefresh() is idempotent (without a timer, or called again, it
\* does nothing) and it never changes the state, writes the store, posts a
\* message or calls a listener.
C31_StopIdempotent ==
    /\ []StopLeavesNothingToStop
    /\ [][StopStep]_vars

\* stopAutoRefresh() was called on a live engine that displays an action and
\* whose timer an earlier stopAutoRefresh() had already stopped
C31_Witness ==
    /\ fx.handler = "stopAutoRefresh"
    /\ fx.trace = <<>>
    /\ fx.before.status = "Displayed"
    /\ storageEvents[fx.tab]
    /\ loads[fx.tab] = <<>>

(***************************************************************************)
(* The state a loadAction leaves at its return.                            *)
(***************************************************************************)
\* C32: when a loadAction(r) with a valid r returns, the state of its tab
\* has status Displayed, the action of r and isLoading false, whatever ran in
\* the tab while the call was suspended.
C32_LoadPostCondition ==
    fx.handler = "loadAction.resume" =>
       /\ fx.thrown = Null
       /\ state[fx.tab].status = "Displayed"
       /\ state[fx.tab].action # Null
       /\ state[fx.tab].action[1].referenceId = fx.input.referenceId
       /\ state[fx.tab].isLoading = FALSE

\* a loadAction returned that resumed in a state other than the one it had
\* left at its await: cleared, replaced by a delivery, or left by another call
C32_Witness ==
    /\ fx.handler = "loadAction.resume"
    /\ fx.before.status \in {"Idle", "Failed", "Displayed"}
    /\ state[fx.tab].status = "Displayed"
    /\ state[fx.tab].action[1].referenceId = fx.input.referenceId

(***************************************************************************)
(* error and status.                                                       *)
(***************************************************************************)
\* C33: in every state of a tab an error message is present only with status
\* Failed; a state with status Displayed and an action carries no error.
C33_ErrorOnlyWhenFailed ==
    \A c \in Tabs :
       (alive[c] /\ state[c].error # Null) => state[c].status = "Failed"

(***************************************************************************)
(* What follows clear().                                                   *)
(***************************************************************************)
\* tab c has no action, status Idle and no timer
IdleWithoutTimer(c) ==
    /\ state[c].action = Null
    /\ state[c].status = "Idle"
    /\ ~refreshTimer[c]
    /\ intervals[c] = 0

\* the state of tab c is the one clear() left: Idle, without action or
\* timer, its only log line the one clear() writes
AsCleared(c) ==
    /\ IdleWithoutTimer(c)
    /\ Len(state[c].logs) = 1
    /\ state[c].logs[1].text = "Engine reset"

\* clear() leaves the state of its tab as cleared
ClearClears == fx.handler = "clear" => AsCleared(fx.tab)

\* C34, as claimed: after clear() the tab keeps action absent, status Idle
\* and no timer until loadAction is called in it, also when a loadAction was
\* in flight at the clear().
C34_ClearFinalUntilLoad ==
    /\ []ClearClears
    /\ [][\A c \in Tabs :
             (AsCleared(c) /\ ~IdleWithoutTimer(c)') =>
                (fx'.tab = c /\ fx'.handler = "loadAction")]_vars

\* C34, amended: after clear() the tab keeps action absent, status Idle and
\* no timer until loadAction is called in it, a loadAction that was in flight
\* at the clear() resumes, or a snapshot of another tab is delivered.
C34_ClearFinalUntilLoadOrResume ==
    /\ []ClearClears
    /\ [][\A c \in Tabs :
             (AsCleared(c) /\ ~IdleWithoutTimer(c)') =>
                /\ fx'.tab = c
                /\ \/ fx'.handler = "loadAction"
                   \/ fx'.handler = "loadAction.resume" /\ loads[c] # <<>>
                   \/ fx'.handler \in {"onmessage", "storage"}]_vars

\* clear() was called on a tab that displayed an action, with no loadAction
\* in flight
C34_Witness ==
    /\ fx.handler = "clear"
    /\ fx.before.status = "Displayed"
    /\ fx.before.action # Null
    /\ AsCleared(fx.tab)
    /\ loads[fx.tab] = <<>>

(***************************************************************************)
(* SpecFair: the two tabs of Spec, with the browser bound to dispatch      *)
(* every queued message and storage event.                                 *)
(***************************************************************************)
SpecFair ==
    /\ Init
    /\ [][Next]_vars
    /\ \A c \in Tabs : WF_vars(DeliverBroadcast(c)) /\ WF_vars(DeliverStorage(c))

\* the handlers that replace the state by a received or stored snapshot
Replacing == fx.handler \in {"onmessage", "storage"} \/ Constructed

\* a handler that replaces the state calls neither setItem nor postMessage
ReplaceIsSilent ==
    Replacing =>
       \A i \in 1..Len(fx.trace) : fx.trace[i].op \notin {"setItem", "postMessage", "update"}

\* a step that replaces the state leaves the store as it is and queues
\* nothing; any step queues for a tab at most one message and one storage
\* event per mutation it makes
QueuedPerMutation ==
    LET made == IF fx' = fx THEN 0 ELSE Cardinality(UpdatesOf(fx'.trace))
    IN  /\ \A d \in Tabs : /\ Len(bcq'[d]) <= Len(bcq[d]) + made
                           /\ Len(stq'[d]) <= Len(stq[d]) + made
        /\ Replacing' /\ fx' # fx => storage' = storage

\* no loadAction is suspended and no timer is active
Quiet == \A c \in Tabs : loads[c] = <<>> /\ ~refreshTimer[c] /\ intervals[c] = 0

\* C35: replacing the state from a message, a storage event or the stored
\* snapshot at startup writes nothing and posts nothing; a mutation queues at
\* most one message and one storage event for each other tab; and from a
\* state without suspended load and timer a state with nothing queued is
\* reached.
C35_NoEcho ==
    /\ []ReplaceIsSilent
    /\ [][QueuedPerMutation]_vars
    /\ (Quiet ~> (PendingCount = 0))

\* a tab replaced its state by a snapshot another tab had sent, and nothing
\* is queued any more
C35_Witness ==
    /\ fx.handler \in {"onmessage", "storage"}
    /\ state[fx.tab] # fx.before
    /\ state[fx.tab].status = "Displayed"
    /\ Quiet
    /\ PendingCount = 0

(***************************************************************************)
(* The stored snapshot.                                                    *)
(***************************************************************************)
\* the handler that ran last made at least one mutation
Mutated == UpdatesOf(fx.trace) # {}

\* after a handler that mutated, the store holds the text of the last state
\* it assigned, which is the state of its tab
StoredIsLastAssigned ==
    Mutated =>
       /\ storage = Some(JSONstringify(state[fx.tab]))
       /\ state[fx.tab] = NthUpdate(fx.trace, Cardinality(UpdatesOf(fx.trace)))

\* the store changes only in a step that mutates
StoreFollowsMutations ==
    storage' # storage => (fx' # fx /\ Mutated')

\* an engine constructed over a stored snapshot holds that snapshot
RestartAdoptsStored ==
    (Constructed /\ storage # Null) => state[fx.tab] = JSONparse(storage[1])

\* C36: while the store accepts writes, the item stored under watcher_state
\* is the state of the most recent mutation made in any tab, and a tab that
\* restarts adopts it.
C36_StoredIsLatestMutation ==
    /\ [](StoredIsLastAssigned /\ RestartAdoptsStored)
    /\ [][StoreFollowsMutations]_vars

\* a tab restarted and holds the action a load in the other tab had stored
C36_Witness ==
    /\ Constructed
    /\ storage = Some(JSONstringify(state[fx.tab]))
    /\ state[fx.tab].action # Null
    /\ \E d \in Tabs \ {fx.tab} : alive[d] /\ refreshTimer[d]

(***************************************************************************)
(* SpecReturn: the tab of SpecSubscribe, with the 1500 ms timer of a       *)
(* suspended loadAction bound to fire.                                     *)
(***************************************************************************)
\* LoadResume(c) can be taken
ResumeEnabled(c) == alive[c] /\ Settled /\ loads[c] # <<>>

\* weak fairness of LoadResume("A"), its enabling condition written out:
\* the timer of a suspended call does not stay pending for ever
SpecReturn ==
    /\ InitSubscribe
    /\ [][NextSubscribe]_vars
    /\ \/ []<>(~ResumeEnabled("A"))
       \/ []<><<LoadResume("A")>>_vars

\* a loadAction that returns leaves isLoading false and status Displayed or
\* Failed; it returns from its first part exactly when validation fails
ReturnsSettled ==
    /\ fx.handler = "loadAction.resume" =>
          /\ state[fx.tab].isLoading = FALSE
          /\ state[fx.tab].status \in {"Displayed", "Failed"}
    /\ (fx.handler = "loadAction" /\ ~validateReferenceId(fx.input.referenceId)) =>
          /\ state[fx.tab].isLoading = FALSE
          /\ state[fx.tab].status = "Failed"

\* a call with an invalid reference ID does not wait for the fetch, a call
\* with a valid one does
WaitsIffValid ==
    \A c \in Tabs :
       (fx' # fx /\ fx'.handler = "loadAction" /\ fx'.tab = c) =>
          Len(loads'[c]) = Len(loads[c]) +
             (IF validateReferenceId(fx'.input.referenceId) THEN 1 ELSE 0)

\* C37: every loadAction returns once its fetch timer fires, leaving
\* isLoading false and status Displayed or Failed; with an invalid reference
\* ID it returns without waiting.
C37_EveryLoadReturns ==
    /\ []ReturnsSettled
    /\ [][WaitsIffValid]_vars
    /\ \A n \in 1..MaxLoads :
          (Len(loads["A"]) = n) ~> (Len(loads["A"]) = n - 1)

\* a loadAction returned after a call with an invalid reference ID had
\* failed during its fetch, and no call is suspended any more
C37_Witness ==
    /\ fx.handler = "loadAction.resume"
    /\ fx.before.status = "Failed"
    /\ fx.input.overlapped
    /\ state[fx.tab].status = "Displayed"
    /\ state[fx.tab].isLoading = FALSE
    /\ loads[fx.tab] = <<>>

(***************************************************************************)
(* The same snapshot delivered twice.                                      *)
(***************************************************************************)
\* the step delivers to the tab of the last delivery the snapshot that
\* delivery carried
DeliversAgain ==
    /\ IsDelivery(fx)
    /\ IsDelivery(fx')
    /\ fx'.tab = fx.tab
    /\ bcq' # bcq \/ stq' # stq
    /\ DeliveredSnapshot(fx') = DeliveredSnapshot(fx)

\* C38: a snapshot delivered to a tab a second time in a row, by either
\* channel, leaves the state the first delivery left.
C38_DuplicateDeliveryIdempotent ==
    [][DeliversAgain =>
          /\ state'[fx.tab] = state[fx.tab]
          /\ state'[fx.tab] = DeliveredSnapshot(fx)]_vars

\* both queued deliveries were handled, and the second carried the snapshot
\* the first had put in place
C38_Witness ==
    /\ IsDelivery(fx)
    /\ Drained(fx.tab)
    /\ fx.before = DeliveredSnapshot(fx)
    /\ state[fx.tab] = DeliveredSnapshot(fx)
    /\ state[fx.tab].status = "Displayed"

(***************************************************************************)
(* How much of a user name the mask shows.                                 *)
(***************************************************************************)
\* the positions of a masked name that show a character of the name
Shown(masked) == {i \in 1..Len(masked) : masked[i] # "*"}

\* the number of characters a masked name shows before its first star
ShownPrefix(masked) ==
    Cardinality({i \in Shown(masked) : \A j \in 1..i : masked[j] # "*"})

=============================================================================
